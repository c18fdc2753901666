--------------------------- MODULE NplexFuncTests ---------------------------
(***************************************************************************)
(* The functional tests of the isolation levels (examples/functests.cpp)   *)
(* run against the client of NplexTransactions and its server.  A test is  *)
(* a script: the sequence of the calls its thread makes, with what it      *)
(* CHECKs.  The thread takes the script's steps while the event loop and   *)
(* the server take theirs; it waits only where the test calls get().       *)
(*                                                                         *)
(* The names test/x, test/y, test/z stand for x, y and z; test/other is y, *)
(* test/new, test/phantom and test/missing are x.                          *)
(***************************************************************************)
EXTENDS NplexTransactions, FiniteSetsExt

CONSTANTS x, y, z       \* the keys of the tests

VARIABLES
    test,               \* the test being run
    step,               \* its next step
    handle,             \* the transactions its local variables point to
    g_tests_passed, g_tests_failed,
    outcome             \* "running", "done", or "error" after an exception

thread == <<test, step, handle, g_tests_passed, g_tests_failed, outcome>>
allvars == <<vars, thread>>

Var == {"tx", "tx0", "tx1", "tx2"}      \* "tx" is the local of the helpers

-----------------------------------------------------------------------------
(* The calls a test makes.                                                 *)
Create(v, level, ro) == <<[op |-> "create", var |-> v, level |-> level, ro |-> ro]>>
ReadKey(v, k) == <<[op |-> "read", var |-> v, key |-> k]>>
CheckRead(v, k, d) == <<[op |-> "check_read", var |-> v, key |-> k, data |-> d]>>
CheckReadOr(v, k, dflt, d) ==
    <<[op |-> "check_read_or", var |-> v, key |-> k, dflt |-> dflt, data |-> d]>>
UpsertKey(v, k, d) == <<[op |-> "upsert", var |-> v, key |-> k, data |-> d]>>
Remove(v, k) == <<[op |-> "remove", var |-> v, pattern |-> {k}]>>
RemoveAll(v) == <<[op |-> "remove", var |-> v, pattern |-> Key]>>
CheckDirty(v, b) == <<[op |-> "check_dirty", var |-> v, dirty |-> b]>>
CheckRevSame(v, w) == <<[op |-> "check_rev_same", var |-> v, other |-> w]>>
CheckRevAfter(v, w) == <<[op |-> "check_rev_after", var |-> v, other |-> w]>>
SubmitTx(v, force) == <<[op |-> "submit", var |-> v, force |-> force]>>
CheckResult(v, rc) == <<[op |-> "check_result", var |-> v, rc |-> rc]>>
RequireResult(v, rcs) == <<[op |-> "require_result", var |-> v, rcs |-> rcs]>>
DiscardTx(v) == <<[op |-> "discard", var |-> v]>>
Release(v) == <<[op |-> "release", var |-> v]>>

(* clean_db(), external_upsert() and external_remove(): a forced           *)
(* transaction of the same client, awaited.                                *)
Forced(calls, rcs) ==
    Create("tx", "READ_COMMITTED", FALSE) \o calls \o SubmitTx("tx", TRUE)
        \o RequireResult("tx", rcs) \o Release("tx")
clean_db == Forced(RemoveAll("tx"), {"COMMITTED", "NO_MODIFICATIONS"})
external_upsert(k, d) == Forced(UpsertKey("tx", k, d), {"COMMITTED"})
external_upsert2(k1, d1, k2, d2) ==
    Forced(UpsertKey("tx", k1, d1) \o UpsertKey("tx", k2, d2), {"COMMITTED"})
external_upsert3(k1, d1, k2, d2, k3, d3) ==
    Forced(UpsertKey("tx", k1, d1) \o UpsertKey("tx", k2, d2) \o UpsertKey("tx", k3, d3),
           {"COMMITTED"})
external_remove(k) == Forced(Remove("tx", k), {"COMMITTED", "NO_MODIFICATIONS"})
external_remove2(k1, k2) ==
    Forced(Remove("tx", k1) \o Remove("tx", k2), {"COMMITTED", "NO_MODIFICATIONS"})

RC == "READ_COMMITTED"
RR == "REPEATABLE_READ"
SER == "SERIALIZABLE"

-----------------------------------------------------------------------------
(* READ_COMMITTED tests.                                                   *)
test_rc_read_sees_commits ==
    clean_db \o Create("tx1", RC, TRUE) \o CheckRead("tx1", x, "null")
    \o external_upsert(x, "1") \o CheckRead("tx1", x, "1")
    \o external_upsert(x, "2") \o CheckRead("tx1", x, "2") \o DiscardTx("tx1")

test_rc_own_writes_visible ==
    clean_db \o Create("tx1", RC, FALSE) \o UpsertKey("tx1", x, "99")
    \o external_upsert(x, "3") \o CheckRead("tx1", x, "99") \o DiscardTx("tx1")

test_rc_read_after_external_delete ==
    clean_db \o external_upsert(x, "10")
    \o Create("tx1", RC, TRUE) \o CheckRead("tx1", x, "10")
    \o external_remove(x) \o CheckRead("tx1", x, "null") \o DiscardTx("tx1")

test_rc_read_or_default ==
    clean_db \o Create("tx1", RC, TRUE)
    \o CheckReadOr("tx1", x, "default_val", "default_val") \o DiscardTx("tx1")

test_rc_full_scenario ==
    clean_db \o Create("tx1", RC, FALSE) \o CheckRead("tx1", x, "null")
    \o external_upsert(x, "1") \o CheckRead("tx1", x, "1")
    \o external_upsert(x, "2") \o CheckRead("tx1", x, "2")
    \o UpsertKey("tx1", x, "99")
    \o external_upsert(x, "3") \o CheckRead("tx1", x, "99")
    \o Remove("tx1", x) \o CheckRead("tx1", x, "null")
    \o external_upsert(x, "4") \o CheckRead("tx1", x, "null") \o DiscardTx("tx1")

(* REPEATABLE_READ tests.                                                  *)
test_rr_repeatable_reads ==
    clean_db \o external_upsert(x, "1")
    \o Create("tx1", RR, TRUE) \o CheckRead("tx1", x, "1")
    \o external_upsert(x, "2") \o CheckRead("tx1", x, "1") \o DiscardTx("tx1")

test_rr_new_key_reads_latest ==
    clean_db \o Create("tx1", RR, TRUE)
    \o external_upsert(y, "10") \o CheckRead("tx1", y, "10")
    \o external_upsert(y, "20") \o CheckRead("tx1", y, "10") \o DiscardTx("tx1")

test_rr_read_after_external_delete ==
    clean_db \o external_upsert(x, "5")
    \o Create("tx1", RR, TRUE) \o CheckRead("tx1", x, "5")
    \o external_remove(x) \o CheckRead("tx1", x, "5") \o DiscardTx("tx1")

test_rr_own_writes ==
    clean_db \o external_upsert(x, "1")
    \o Create("tx1", RR, FALSE) \o CheckRead("tx1", x, "1")
    \o UpsertKey("tx1", x, "50") \o CheckRead("tx1", x, "50")
    \o external_upsert(x, "2") \o CheckRead("tx1", x, "50") \o DiscardTx("tx1")

test_rr_full_scenario ==
    clean_db \o Create("tx1", RR, FALSE) \o CheckRead("tx1", x, "null")
    \o external_upsert(x, "1") \o CheckRead("tx1", x, "null") \o DiscardTx("tx1")
    \o Create("tx2", RR, FALSE) \o Release("tx1") \o CheckRead("tx2", x, "1")
    \o external_upsert(x, "2") \o CheckRead("tx2", x, "1")
    \o UpsertKey("tx2", x, "99")
    \o external_upsert(x, "3") \o CheckRead("tx2", x, "99") \o DiscardTx("tx2")

(* SERIALIZABLE tests.                                                     *)
test_ser_snapshot_read ==
    clean_db \o external_upsert2(x, "1", y, "2") \o Create("tx1", SER, TRUE)
    \o external_upsert3(x, "10", y, "20", z, "30") \o CheckDirty("tx1", FALSE)
    \o CheckRead("tx1", x, "1") \o CheckRead("tx1", y, "2") \o CheckRead("tx1", z, "null")
    \o CheckDirty("tx1", TRUE)
    \o SubmitTx("tx1", FALSE) \o CheckResult("tx1", "NO_MODIFICATIONS") \o DiscardTx("tx1")

test_ser_phantom_prevention ==
    clean_db \o Create("tx1", SER, TRUE)
    \o external_upsert(x, "ghost") \o CheckRead("tx1", x, "null") \o DiscardTx("tx1")

test_ser_delete_not_visible ==
    clean_db \o external_upsert2(x, "alive1", y, "alive2") \o Create("tx1", SER, TRUE)
    \o external_remove2(x, y)
    \o CheckRead("tx1", x, "alive1") \o CheckRead("tx1", y, "alive2") \o DiscardTx("tx1")

test_ser_own_writes ==
    clean_db \o external_upsert(x, "1")
    \o Create("tx1", SER, FALSE) \o CheckRead("tx1", x, "1") \o UpsertKey("tx1", x, "42")
    \o external_upsert(x, "999") \o CheckRead("tx1", x, "42") \o DiscardTx("tx1")

test_ser_full_scenario ==
    clean_db \o Create("tx1", SER, FALSE) \o CheckRead("tx1", x, "null")
    \o external_upsert(x, "1") \o CheckRead("tx1", x, "null")
    \o UpsertKey("tx1", x, "99")
    \o external_upsert(x, "3") \o CheckRead("tx1", x, "99") \o DiscardTx("tx1")

test_ser_rev_consistent ==
    clean_db \o Create("tx0", RC, TRUE) \o Create("tx1", SER, TRUE)
    \o CheckRevSame("tx0", "tx1")
    \o external_upsert(x, "1") \o CheckRevAfter("tx0", "tx1")
    \o DiscardTx("tx0") \o DiscardTx("tx1")

(* DIRTY flag tests.                                                       *)
test_rc_not_dirty_on_read_key ==
    clean_db \o external_upsert(x, "1")
    \o Create("tx1", RC, FALSE) \o ReadKey("tx1", x) \o CheckDirty("tx1", FALSE)
    \o external_upsert(x, "2") \o CheckDirty("tx1", FALSE)
    \o SubmitTx("tx1", FALSE) \o CheckResult("tx1", "NO_MODIFICATIONS")

test_rc_not_dirty_unrelated_key ==
    clean_db \o external_upsert(x, "1") \o Create("tx1", RC, FALSE) \o ReadKey("tx1", x)
    \o external_upsert(y, "99") \o CheckDirty("tx1", FALSE) \o DiscardTx("tx1")

test_rr_dirty_on_read_key ==
    clean_db \o external_upsert(x, "1")
    \o Create("tx1", RR, FALSE) \o ReadKey("tx1", x) \o CheckDirty("tx1", FALSE)
    \o external_upsert(x, "2") \o CheckDirty("tx1", TRUE)
    \o SubmitTx("tx1", FALSE) \o CheckResult("tx1", "NO_MODIFICATIONS")

test_rr_not_dirty_unrelated_key ==
    clean_db \o external_upsert(x, "1") \o Create("tx1", RR, FALSE) \o ReadKey("tx1", x)
    \o external_upsert(y, "99") \o CheckDirty("tx1", FALSE) \o DiscardTx("tx1")

test_ser_dirty_on_updated_key ==
    clean_db \o external_upsert(x, "1")
    \o Create("tx1", SER, FALSE) \o ReadKey("tx1", x) \o CheckDirty("tx1", FALSE)
    \o external_upsert(x, "2") \o CheckDirty("tx1", TRUE)
    \o SubmitTx("tx1", FALSE) \o CheckResult("tx1", "NO_MODIFICATIONS")

test_ser_dirty_phantom_key ==
    clean_db \o Create("tx1", SER, FALSE)
    \o external_upsert(x, "ghost") \o CheckRead("tx1", x, "null") \o CheckDirty("tx1", FALSE)
    \o external_upsert(x, "ghost2") \o CheckDirty("tx1", TRUE) \o DiscardTx("tx1")

test_dirty_forced_submit ==
    clean_db \o external_upsert(x, "1")
    \o Create("tx1", RC, FALSE) \o ReadKey("tx1", x) \o UpsertKey("tx1", x, "forced")
    \o external_upsert(x, "2") \o CheckDirty("tx1", TRUE)
    \o SubmitTx("tx1", TRUE) \o CheckResult("tx1", "COMMITTED")

Tests ==
    [rc_read_sees_commits |-> test_rc_read_sees_commits,
     rc_own_writes_visible |-> test_rc_own_writes_visible,
     rc_read_after_external_delete |-> test_rc_read_after_external_delete,
     rc_read_or_default |-> test_rc_read_or_default,
     rc_full_scenario |-> test_rc_full_scenario,
     rr_repeatable_reads |-> test_rr_repeatable_reads,
     rr_new_key_reads_latest |-> test_rr_new_key_reads_latest,
     rr_read_after_external_delete |-> test_rr_read_after_external_delete,
     rr_own_writes |-> test_rr_own_writes,
     rr_full_scenario |-> test_rr_full_scenario,
     ser_snapshot_read |-> test_ser_snapshot_read,
     ser_phantom_prevention |-> test_ser_phantom_prevention,
     ser_delete_not_visible |-> test_ser_delete_not_visible,
     ser_own_writes |-> test_ser_own_writes,
     ser_full_scenario |-> test_ser_full_scenario,
     ser_rev_consistent |-> test_ser_rev_consistent,
     rc_not_dirty_on_read_key |-> test_rc_not_dirty_on_read_key,
     rc_not_dirty_unrelated_key |-> test_rc_not_dirty_unrelated_key,
     rr_dirty_on_read_key |-> test_rr_dirty_on_read_key,
     rr_not_dirty_unrelated_key |-> test_rr_not_dirty_unrelated_key,
     ser_dirty_on_updated_key |-> test_ser_dirty_on_updated_key,
     ser_dirty_phantom_key |-> test_ser_dirty_phantom_key,
     dirty_forced_submit |-> test_dirty_forced_submit,
     clean_up |-> clean_db]

-----------------------------------------------------------------------------
(* The test thread.                                                        *)
TestInit ==
    /\ Init
    /\ test \in DOMAIN Tests /\ step = 1
    /\ handle = [v \in Var |-> Null]
    /\ g_tests_passed = 0 /\ g_tests_failed = 0
    /\ outcome = "running"

Call == Tests[test][step]
At(op) ==
    /\ outcome = "running" /\ step <= Len(Tests[test]) /\ Call.op = op
    /\ UNCHANGED test
Tx1 == handle[Call.var]
Continue == step' = step + 1 /\ UNCHANGED <<handle, outcome>>
NoCheck == UNCHANGED <<g_tests_passed, g_tests_failed>>

(* CHECK(expr)                                                             *)
CHECK(expr) ==
    /\ g_tests_passed' = g_tests_passed + (IF expr THEN 1 ELSE 0)
    /\ g_tests_failed' = g_tests_failed + (IF expr THEN 0 ELSE 1)

(* A call with no effect on the client.                                    *)
Looks == UNCHANGED vars

CreateStep ==
    /\ At("create")
    /\ \E t \in {Min({u \in Tx : state[u] = "NONE" /\ (u \in ReadOnly) = Call.ro})} :
        /\ CreateTx(t, Call.level)
        /\ handle' = [handle EXCEPT ![Call.var] = t]
    /\ step' = step + 1
    /\ UNCHANGED outcome /\ NoCheck

DataOf(v) == IF v = Null THEN "null" ELSE v.data

ReadStep ==
    /\ At("read") \/ At("check_read") \/ At("check_read_or")
    /\ Read(Tx1, Call.key, FALSE)
    /\ LET got == DataOf(Visible(Tx1, Call.key)) IN
        CASE Call.op = "read" -> NoCheck
          [] Call.op = "check_read" -> CHECK(got = Call.data)
          [] Call.op = "check_read_or" ->
                CHECK((IF got = "null" THEN Call.dflt ELSE got) = Call.data)
    /\ Continue

UpsertStep == At("upsert") /\ Upsert(Tx1, Call.key, Call.data, TRUE) /\ Continue /\ NoCheck

(* The tests pass a const char *, a name without wildcards or "**", so the *)
(* overload of remove() that is called is the one for patterns.            *)
RemoveStep ==
    /\ At("remove")
    /\ RemovePattern(Tx1, Call.pattern)
    /\ Continue /\ NoCheck

DirtyStep == At("check_dirty") /\ CHECK(dirty[Tx1] = Call.dirty) /\ Looks /\ Continue

(* rev()                                                                   *)
Rev(t) == IF isolation[t] = "SERIALIZABLE" THEN rev_creation[t] ELSE m_rev
RevStep ==
    /\ At("check_rev_same") \/ At("check_rev_after")
    /\ LET r1 == Rev(Tx1)
           r2 == Rev(handle[Call.other])
       IN CHECK(IF Call.op = "check_rev_same" THEN r1 = r2 ELSE r1 > r2)
    /\ Looks /\ Continue

SubmitStep == At("submit") /\ Submit(Tx1, Call.force) /\ Continue /\ NoCheck

(* get(), and what the test does with the result.                          *)
ResultStep ==
    /\ At("check_result") \/ At("require_result")
    /\ future[Tx1] # "pending"
    /\ Looks
    /\ step' = step + 1 /\ UNCHANGED handle
    /\ IF Call.op = "check_result"
       THEN CHECK(future[Tx1] = Call.rc) /\ UNCHANGED outcome
       ELSE /\ outcome' = IF future[Tx1] \in Call.rcs THEN outcome ELSE "error"
            /\ NoCheck

DiscardStep ==
    /\ At("discard")
    /\ IF state[Tx1] \in Closed THEN Looks ELSE Discard(Tx1)
    /\ Continue /\ NoCheck

ReleaseStep ==
    /\ At("release") /\ DropHandle(Tx1)
    /\ handle' = [handle EXCEPT ![Call.var] = Null]
    /\ step' = step + 1 /\ UNCHANGED outcome /\ NoCheck

(* TEST_FINISH(): the locals go out of scope.                              *)
FinishStep ==
    /\ outcome = "running" /\ step > Len(Tests[test])
    /\ outcome' = "done"
    /\ held' = {} /\ handle' = [v \in Var |-> Null]
    /\ UNCHANGED <<server, client, content, state, created, future, missed, test, step>>
    /\ NoCheck

TestStep ==
    \/ CreateStep \/ ReadStep \/ UpsertStep \/ RemoveStep
    \/ DirtyStep \/ RevStep \/ SubmitStep \/ ResultStep \/ DiscardStep
    \/ ReleaseStep \/ FinishStep

ClientStep == LoopStep /\ UNCHANGED thread
StreamStep == ServerPush /\ UNCHANGED thread
AnswerStep == ServerSubmit /\ UNCHANGED thread

(* Another client commits to a key of its own, at any time.  Only the test *)
(* that compares revisions needs the database for itself.                  *)
OtherStep == test # "ser_rev_consistent" /\ ServerCommit /\ UNCHANGED thread

TestNext == TestStep \/ ClientStep \/ StreamStep \/ AnswerStep \/ OtherStep

(* The thread of the tests, the event loop and the server keep running.    *)
TestSpec ==
    /\ TestInit /\ [][TestNext]_allvars
    /\ WF_allvars(TestStep) /\ WF_allvars(ClientStep)
    /\ WF_allvars(StreamStep) /\ WF_allvars(AnswerStep)

-----------------------------------------------------------------------------
(* Every CHECK of every test holds whenever the event loop gets to apply   *)
(* the commits: a commit that submit().get() reports has already reached   *)
(* the store and every other open transaction, and the levels show, hide   *)
(* and flag it as the tests say.  Commits of other clients to other keys   *)
(* do not disturb that.                                                    *)
ChecksPass == g_tests_failed = 0

(* No test hangs in get() or create_tx(), or ends in an exception.         *)
TestsEnd == <>(outcome = "done")
=============================================================================
