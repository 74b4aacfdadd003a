------------------------ MODULE DashboardConfigProofs ------------------------
(***************************************************************************)
(* Proofs about DashboardConfig, for any number of requests and edits.     *)
(***************************************************************************)
EXTENDS DashboardConfig, TLAPS

Structure == TypeOK /\ MutexInv /\ TaskInv /\ BridgeInv

LEMMA InitInvariant == Init => IInv
  BY DashboardConfigAssumption, SMTT(60)
  DEF Init, IInv, Session, Quiet, FilesOf, Kind, TypeOK, MutexInv, TaskInv, BridgeInv, QuietInv, KnownInv, FilesInv,
      Author, Actor, FileSet, Revisions, Revision, Disk, Held, Unwritten, Saved,
      Writing, Undoing, SavingOnly, Ended, Refusal, Holding, Finished, Saving, Undisturbed

LEMMA StepInvariant == IInv /\ [Next]_vars => IInv'
<1> SUFFICES ASSUME IInv, [Next]_vars PROVE IInv'
  OBVIOUS
<1>a. Structure /\ QuietInv /\ KnownInv /\ FilesInv
  BY DEF IInv, Structure
<1> USE DashboardConfigAssumption, <1>a
    DEF Structure, TypeOK, diskVars, requestVars, sessionVars,
        Goto, End, Held, Unwritten, Saved, Writing, Undoing, SavingOnly, Ended, Refusal, Holding,
        Finished, Saving, Kind, Actor, Author, FileSet, Revisions, Revision, Disk,
        Quiet, Session
<1>1. ASSUME NEW r \in Request, Reject(r) PROVE IInv'
  <2>1. TypeOK'
    BY <1>1 DEF Reject
  <2>a. MutexInv'
    BY <1>1 DEF Reject, MutexInv
  <2>b. TaskInv'
    BY <1>1 DEF Reject, MutexInv, TaskInv
  <2>2. BridgeInv'
    BY <1>1 DEF Reject, MutexInv, TaskInv, BridgeInv
  <2>3. QuietInv'
    BY <1>1 DEF Reject, MutexInv, TaskInv, BridgeInv, QuietInv
  <2>4. KnownInv'
    BY <1>1 DEF Reject, MutexInv, KnownInv
  <2>5. FilesInv'
    BY <1>1 DEF Reject, MutexInv, FilesInv, FilesOf, Undisturbed, UpdatedDotenv
  <2>6. QED
    BY ONLY <2>1, <2>a, <2>b, <2>2, <2>3, <2>4, <2>5 DEF IInv
<1>2. ASSUME NEW r \in Request, State(r) PROVE IInv'
  <2>1. TypeOK'
    BY <1>2 DEF State
  <2>a. MutexInv'
    BY <1>2 DEF State, MutexInv
  <2>b. TaskInv'
    BY <1>2 DEF State, MutexInv, TaskInv
  <2>2. BridgeInv'
    BY <1>2 DEF State, MutexInv, TaskInv, BridgeInv
  <2>3. QuietInv'
    BY <1>2 DEF State, MutexInv, TaskInv, BridgeInv, QuietInv
  <2>4. KnownInv'
    BY <1>2 DEF State, MutexInv, KnownInv
  <2>5. FilesInv'
    BY <1>2 DEF State, MutexInv, FilesInv, FilesOf, Undisturbed, UpdatedDotenv
  <2>6. QED
    BY ONLY <2>1, <2>a, <2>b, <2>2, <2>3, <2>4, <2>5 DEF IInv
<1>3. ASSUME NEW r \in Request, Show(r) PROVE IInv'
  <2>1. TypeOK'
    BY <1>3 DEF Show
  <2>a. MutexInv'
    BY <1>3 DEF Show, MutexInv
  <2>b. TaskInv'
    BY <1>3 DEF Show, MutexInv, TaskInv
  <2>2. BridgeInv'
    BY <1>3 DEF Show, MutexInv, TaskInv, BridgeInv
  <2>3. QuietInv'
    BY <1>3 DEF Show, MutexInv, TaskInv, BridgeInv, QuietInv
  <2>4. KnownInv'
    BY <1>3 DEF Show, MutexInv, KnownInv
  <2>5. FilesInv'
    BY <1>3 DEF Show, MutexInv, FilesInv, FilesOf, Undisturbed, UpdatedDotenv
  <2>6. QED
    BY ONLY <2>1, <2>a, <2>b, <2>2, <2>3, <2>4, <2>5 DEF IInv
<1>4. ASSUME NEW r \in Request, Configure(r) PROVE IInv'
  <2>1. TypeOK'
    BY <1>4 DEF Configure
  <2>a. MutexInv'
    BY <1>4 DEF Configure, MutexInv
  <2>b. TaskInv'
    BY <1>4 DEF Configure, MutexInv, TaskInv
  <2>2. BridgeInv'
    BY <1>4 DEF Configure, MutexInv, TaskInv, BridgeInv
  <2>3. QuietInv'
    BY <1>4 DEF Configure, MutexInv, TaskInv, BridgeInv, QuietInv
  <2>4. KnownInv'
    BY <1>4 DEF Configure, MutexInv, KnownInv
  <2>5. FilesInv'
    BY <1>4 DEF Configure, MutexInv, FilesInv, FilesOf, Undisturbed, UpdatedDotenv
  <2>6. QED
    BY ONLY <2>1, <2>a, <2>b, <2>2, <2>3, <2>4, <2>5 DEF IInv
<1>5. ASSUME NEW r \in Request, Begin(r) PROVE IInv'
  <2>1. TypeOK'
    BY <1>5, SMTT(60) DEF Begin
  <2>a. MutexInv'
    BY <1>5 DEF Begin, MutexInv
  <2>b. TaskInv'
    BY <1>5 DEF Begin, MutexInv, TaskInv
  <2>2. BridgeInv'
    BY <1>5 DEF Begin, MutexInv, TaskInv, BridgeInv
  <2>3. QuietInv'
    BY <1>5 DEF Begin, MutexInv, TaskInv, BridgeInv, QuietInv
  <2>4. KnownInv'
    BY <1>5 DEF Begin, MutexInv, KnownInv
  <2>5. FilesInv'
    BY <1>5 DEF Begin, MutexInv, FilesInv, FilesOf, Undisturbed, UpdatedDotenv
  <2>6. QED
    BY ONLY <2>1, <2>a, <2>b, <2>2, <2>3, <2>4, <2>5 DEF IInv
<1>6. ASSUME NEW r \in Request, Submit(r) PROVE IInv'
  <2>1. TypeOK'
    BY <1>6, SMTT(60) DEF Submit, NeedsSession
  <2>a. MutexInv'
    BY <1>6 DEF Submit, NeedsSession, MutexInv
  <2>b. TaskInv'
    BY <1>6, SMTT(60) DEF Submit, NeedsSession, MutexInv, TaskInv
  <2>2. BridgeInv'
    BY <1>6 DEF Submit, NeedsSession, MutexInv, TaskInv, BridgeInv
  <2>3. QuietInv'
    BY <1>6 DEF Submit, NeedsSession, MutexInv, TaskInv, BridgeInv, QuietInv
  <2>4. KnownInv'
    BY <1>6 DEF Submit, NeedsSession, MutexInv, KnownInv
  <2>5. FilesInv'
    BY <1>6 DEF Submit, NeedsSession, MutexInv, FilesInv, FilesOf, Undisturbed, UpdatedDotenv
  <2>6. QED
    BY ONLY <2>1, <2>a, <2>b, <2>2, <2>3, <2>4, <2>5 DEF IInv
<1>7. ASSUME NEW r \in Request, Reply(r) PROVE IInv'
  <2>1. TypeOK'
    BY <1>7, SMTT(60) DEF Reply
  <2>a. MutexInv'
    BY <1>7 DEF Reply, MutexInv
  <2>b. TaskInv'
    BY <1>7 DEF Reply, MutexInv, TaskInv
  <2>2. BridgeInv'
    BY <1>7 DEF Reply, MutexInv, TaskInv, BridgeInv
  <2>3. QuietInv'
    BY <1>7 DEF Reply, MutexInv, TaskInv, BridgeInv, QuietInv
  <2>4. KnownInv'
    BY <1>7 DEF Reply, MutexInv, KnownInv
  <2>5. FilesInv'
    BY <1>7 DEF Reply, MutexInv, FilesInv, FilesOf, Undisturbed, UpdatedDotenv
  <2>6. QED
    BY ONLY <2>1, <2>a, <2>b, <2>2, <2>3, <2>4, <2>5 DEF IInv
<1>8. ASSUME NEW r \in Request, Timeout(r) PROVE IInv'
  <2>1. TypeOK'
    <3>1. task' \in [Actor -> {"none", "waiting"} \cup Holding \cup Finished]
      BY <1>8 DEF Timeout, Cancelled
    <3>2. /\ pc' \in [Request -> {"idle", "page", "applying"} \cup Held \cup Ended]
          /\ mutex' \in Request \cup {None}
      BY <1>8 DEF Timeout
    <3>3. UNCHANGED <<kind, diskVars, shown, seen, original, answer, loaded, label, cache,
                      main, up>>
      BY <1>8 DEF Timeout
    <3>4. bridge' \in Actor \cup {Session, None, "orphan", "foreign", "probe"}
      BY <1>8 DEF Timeout
    <3>5. QED
      BY <3>1, <3>2, <3>3, <3>4
  <2>a. MutexInv'
    BY <1>8 DEF Timeout, Cancelled, MutexInv
  <2>b. TaskInv'
    BY <1>8 DEF Timeout, Cancelled, MutexInv, TaskInv
  <2>2. BridgeInv'
    BY <1>8 DEF Timeout, Cancelled, MutexInv, TaskInv, BridgeInv
  <2>3. QuietInv'
    BY <1>8 DEF Timeout, Cancelled, MutexInv, TaskInv, BridgeInv, QuietInv
  <2>4. KnownInv'
    BY <1>8 DEF Timeout, Cancelled, MutexInv, KnownInv
  <2>5. FilesInv'
    BY <1>8 DEF Timeout, Cancelled, MutexInv, FilesInv, FilesOf, Undisturbed, UpdatedDotenv
  <2>6. QED
    BY ONLY <2>1, <2>a, <2>b, <2>2, <2>3, <2>4, <2>5 DEF IInv
<1>9. ASSUME NEW r \in Request, Prepare(r) PROVE IInv'
  <2>1. TypeOK'
    BY <1>9 DEF Prepare
  <2>a. MutexInv'
    BY <1>9 DEF Prepare, MutexInv
  <2>b. TaskInv'
    BY <1>9 DEF Prepare, MutexInv, TaskInv
  <2>2. BridgeInv'
    BY <1>9 DEF Prepare, MutexInv, TaskInv, BridgeInv
  <2>3. QuietInv'
    BY <1>9 DEF Prepare, MutexInv, TaskInv, BridgeInv, QuietInv
  <2>4. KnownInv'
    BY <1>9 DEF Prepare, MutexInv, KnownInv
  <2>5. FilesInv'
    BY <1>9 DEF Prepare, MutexInv, FilesInv, FilesOf, Undisturbed, UpdatedDotenv
  <2>6. QED
    BY ONLY <2>1, <2>a, <2>b, <2>2, <2>3, <2>4, <2>5 DEF IInv
<1>10. ASSUME NEW r \in Request, Build(r) PROVE IInv'
  <2>1. TypeOK'
    BY <1>10 DEF Build
  <2>a. MutexInv'
    BY <1>10 DEF Build, MutexInv
  <2>b. TaskInv'
    BY <1>10 DEF Build, MutexInv, TaskInv
  <2>2. BridgeInv'
    BY <1>10 DEF Build, MutexInv, TaskInv, BridgeInv
  <2>3. QuietInv'
    BY <1>10 DEF Build, MutexInv, TaskInv, BridgeInv, QuietInv
  <2>4. KnownInv'
    BY <1>10 DEF Build, MutexInv, KnownInv
  <2>5. FilesInv'
    BY <1>10 DEF Build, MutexInv, FilesInv, FilesOf, Undisturbed, UpdatedDotenv
  <2>6. QED
    BY ONLY <2>1, <2>a, <2>b, <2>2, <2>3, <2>4, <2>5 DEF IInv
<1>11. ASSUME NEW r \in Request, WriteConfig(r) PROVE IInv'
  <2>1. TypeOK'
    BY <1>11 DEF WriteConfig, NeedsSession
  <2>a. MutexInv'
    BY <1>11 DEF WriteConfig, NeedsSession, MutexInv
  <2>b. TaskInv'
    BY <1>11 DEF WriteConfig, NeedsSession, MutexInv, TaskInv
  <2>2. BridgeInv'
    BY <1>11 DEF WriteConfig, NeedsSession, MutexInv, TaskInv, BridgeInv
  <2>3. QuietInv'
    BY <1>11 DEF WriteConfig, NeedsSession, MutexInv, TaskInv, BridgeInv, QuietInv
  <2>4. KnownInv'
    BY <1>11 DEF WriteConfig, NeedsSession, MutexInv, KnownInv
  <2>5. FilesInv'
    <3> SUFFICES ASSUME Undisturbed'
                 PROVE  /\ (\A s \in Request : mutex' = s =>
                               kind'[s] \notin Saving \/ pc'[s] = "loaded")
                             => Disk' = committed'
                        /\ \A s \in Request : kind'[s] \in Saving => FilesOf(s)'
      BY DEF FilesInv
    <3>1. mutex = r /\ Undisturbed
      BY <1>11 DEF WriteConfig, NeedsSession, MutexInv, Undisturbed
    <3>2. pc'[r] # "unconfirmed"
      BY DEF Undisturbed
    <3>3. kind[r] \in Saving
      BY <1>11 DEF WriteConfig, NeedsSession, MutexInv
    <3>4. FilesOf(r)
      BY <3>1, <3>3 DEF FilesInv
    <3>5. mutex' = r /\ pc'[r] # "loaded" /\ kind' = kind
      BY <1>11, <3>1, <3>2 DEF WriteConfig, NeedsSession
    <3>6. FilesOf(r)'
      BY <1>11, <3>1, <3>2, <3>3, <3>4 DEF WriteConfig, NeedsSession, FilesOf, UpdatedDotenv
    <3>7. ASSUME NEW s \in Request, s # r PROVE FilesOf(s)'
      <4>1. pc'[s] \notin Held
        BY <1>11, <3>1, <3>7 DEF WriteConfig, NeedsSession, MutexInv
      <4>2. QED
        BY <4>1 DEF FilesOf
    <3>8. QED
      BY <3>3, <3>5, <3>6, <3>7
  <2>6. QED
    BY ONLY <2>1, <2>a, <2>b, <2>2, <2>3, <2>4, <2>5 DEF IInv
<1>12. ASSUME NEW r \in Request, WriteDotenv(r) PROVE IInv'
  <2>1. TypeOK'
    BY <1>12 DEF WriteDotenv, UpdatedDotenv
  <2>a. MutexInv'
    BY <1>12 DEF WriteDotenv, UpdatedDotenv, MutexInv
  <2>b. TaskInv'
    BY <1>12 DEF WriteDotenv, UpdatedDotenv, MutexInv, TaskInv
  <2>2. BridgeInv'
    BY <1>12 DEF WriteDotenv, UpdatedDotenv, MutexInv, TaskInv, BridgeInv
  <2>3. QuietInv'
    BY <1>12 DEF WriteDotenv, UpdatedDotenv, MutexInv, TaskInv, BridgeInv, QuietInv
  <2>4. KnownInv'
    BY <1>12 DEF WriteDotenv, UpdatedDotenv, MutexInv, KnownInv
  <2>5. FilesInv'
    <3> SUFFICES ASSUME Undisturbed'
                 PROVE  /\ (\A s \in Request : mutex' = s =>
                               kind'[s] \notin Saving \/ pc'[s] = "loaded")
                             => Disk' = committed'
                        /\ \A s \in Request : kind'[s] \in Saving => FilesOf(s)'
      BY DEF FilesInv
    <3>1. mutex = r /\ Undisturbed
      BY <1>12 DEF WriteDotenv, MutexInv, Undisturbed
    <3>2. pc'[r] # "unconfirmed"
      BY DEF Undisturbed
    <3>3. kind[r] \in Saving
      BY <1>12 DEF WriteDotenv, MutexInv
    <3>4. FilesOf(r)
      BY <3>1, <3>3 DEF FilesInv
    <3>5. mutex' = r /\ pc'[r] # "loaded" /\ kind' = kind
      BY <1>12, <3>1, <3>2 DEF WriteDotenv
    <3>6. FilesOf(r)'
      BY <1>12, <3>1, <3>2, <3>3, <3>4 DEF WriteDotenv, FilesOf, UpdatedDotenv, KnownInv, Undisturbed
    <3>7. ASSUME NEW s \in Request, s # r PROVE FilesOf(s)'
      <4>1. pc'[s] \notin Held
        BY <1>12, <3>1, <3>7 DEF WriteDotenv, MutexInv
      <4>2. QED
        BY <4>1 DEF FilesOf
    <3>8. QED
      BY <3>3, <3>5, <3>6, <3>7
  <2>6. QED
    BY ONLY <2>1, <2>a, <2>b, <2>2, <2>3, <2>4, <2>5 DEF IInv
<1>13. ASSUME NEW r \in Request, Verify(r) PROVE IInv'
  <2>1. TypeOK'
    BY <1>13, SMTT(60) DEF Verify, UpdatedDotenv
  <2>a. MutexInv'
    BY <1>13 DEF Verify, UpdatedDotenv, MutexInv
  <2>b. TaskInv'
    BY <1>13 DEF Verify, UpdatedDotenv, MutexInv, TaskInv
  <2>2. BridgeInv'
    BY <1>13 DEF Verify, UpdatedDotenv, MutexInv, TaskInv, BridgeInv
  <2>3. QuietInv'
    BY <1>13 DEF Verify, UpdatedDotenv, MutexInv, TaskInv, BridgeInv, QuietInv
  <2>4. KnownInv'
    BY <1>13 DEF Verify, UpdatedDotenv, MutexInv, KnownInv
  <2>5. FilesInv'
    <3>1. CASE pc'[r] = "failing"
      <4>1. mutex = r /\ kind[r] \in Saving /\ Undisturbed' = Undisturbed
        BY <1>13, <3>1 DEF Verify, MutexInv, Undisturbed
      <4>2. QED
        BY <1>13, <3>1, <4>1 DEF Verify, MutexInv, FilesInv, FilesOf, UpdatedDotenv
    <3>2. CASE pc'[r] = "applying"
      <4>1. /\ mutex = r /\ kind[r] \in Saving
            /\ Undisturbed' => Undisturbed
            /\ kind' = kind
            /\ committed' = [config |-> r, dotenv |-> UpdatedDotenv(r),
                 jar |-> IF kind[r] = "rebuild" THEN r ELSE committed.jar]
            /\ UNCHANGED <<config, dotenv, jar>>
        BY <1>13, <3>2 DEF Verify, MutexInv, Undisturbed
      <4>2. ASSUME Undisturbed' PROVE Disk' = committed'
        <5>1. FilesOf(r)
          BY <4>1, <4>2 DEF FilesInv
        <5>2. QED
          BY <1>13, <4>1, <5>1 DEF Verify, FilesOf
      <4>3. \A s \in Request : pc'[s] \notin Held
        BY <1>13, <3>2 DEF Verify, MutexInv
      <4>4. \A s \in Request : FilesOf(s)'
        BY <4>3 DEF FilesOf
      <4>5. QED
        BY <4>2, <4>4 DEF FilesInv
    <3>3. QED
      BY <1>13, <3>1, <3>2 DEF Verify, End, Goto
  <2>6. QED
    BY ONLY <2>1, <2>a, <2>b, <2>2, <2>3, <2>4, <2>5 DEF IInv
<1>14. ASSUME NEW r \in Request, Apply(r) PROVE IInv'
  <2>1. TypeOK'
    BY <1>14 DEF Apply
  <2>a. MutexInv'
    BY <1>14 DEF Apply, MutexInv
  <2>b. TaskInv'
    BY <1>14 DEF Apply, MutexInv, TaskInv
  <2>2. BridgeInv'
    BY <1>14 DEF Apply, MutexInv, TaskInv, BridgeInv
  <2>3. QuietInv'
    BY <1>14 DEF Apply, MutexInv, TaskInv, BridgeInv, QuietInv
  <2>4. KnownInv'
    BY <1>14 DEF Apply, MutexInv, KnownInv
  <2>5. FilesInv'
    BY <1>14 DEF Apply, MutexInv, FilesInv, FilesOf, Undisturbed, UpdatedDotenv
  <2>6. QED
    BY ONLY <2>1, <2>a, <2>b, <2>2, <2>3, <2>4, <2>5 DEF IInv
<1>15. ASSUME NEW r \in Request, RestoreConfig(r) PROVE IInv'
  <2>1. TypeOK'
    BY <1>15 DEF RestoreConfig
  <2>a. MutexInv'
    BY <1>15 DEF RestoreConfig, MutexInv
  <2>b. TaskInv'
    BY <1>15 DEF RestoreConfig, MutexInv, TaskInv
  <2>2. BridgeInv'
    BY <1>15 DEF RestoreConfig, MutexInv, TaskInv, BridgeInv
  <2>3. QuietInv'
    BY <1>15 DEF RestoreConfig, MutexInv, TaskInv, BridgeInv, QuietInv
  <2>4. KnownInv'
    BY <1>15 DEF RestoreConfig, MutexInv, KnownInv
  <2>5. FilesInv'
    <3> SUFFICES ASSUME Undisturbed'
                 PROVE  /\ (\A s \in Request : mutex' = s =>
                               kind'[s] \notin Saving \/ pc'[s] = "loaded")
                             => Disk' = committed'
                        /\ \A s \in Request : kind'[s] \in Saving => FilesOf(s)'
      BY DEF FilesInv
    <3>1. mutex = r /\ Undisturbed
      BY <1>15 DEF RestoreConfig, MutexInv, Undisturbed
    <3>2. pc'[r] # "unconfirmed"
      BY DEF Undisturbed
    <3>3. kind[r] \in Saving
      BY <1>15 DEF RestoreConfig, MutexInv
    <3>4. FilesOf(r)
      BY <3>1, <3>3 DEF FilesInv
    <3>5. mutex' = r /\ pc'[r] # "loaded" /\ kind' = kind
      BY <1>15, <3>1, <3>2 DEF RestoreConfig
    <3>6. FilesOf(r)'
      BY <1>15, <3>1, <3>2, <3>3, <3>4 DEF RestoreConfig, FilesOf, UpdatedDotenv
    <3>7. ASSUME NEW s \in Request, s # r PROVE FilesOf(s)'
      <4>1. pc'[s] \notin Held
        BY <1>15, <3>1, <3>7 DEF RestoreConfig, MutexInv
      <4>2. QED
        BY <4>1 DEF FilesOf
    <3>8. QED
      BY <3>3, <3>5, <3>6, <3>7
  <2>6. QED
    BY ONLY <2>1, <2>a, <2>b, <2>2, <2>3, <2>4, <2>5 DEF IInv
<1>16. ASSUME NEW r \in Request, RestoreDotenv(r) PROVE IInv'
  <2>1. TypeOK'
    BY <1>16 DEF RestoreDotenv
  <2>a. MutexInv'
    BY <1>16 DEF RestoreDotenv, MutexInv
  <2>b. TaskInv'
    BY <1>16 DEF RestoreDotenv, MutexInv, TaskInv
  <2>2. BridgeInv'
    BY <1>16 DEF RestoreDotenv, MutexInv, TaskInv, BridgeInv
  <2>3. QuietInv'
    BY <1>16 DEF RestoreDotenv, MutexInv, TaskInv, BridgeInv, QuietInv
  <2>4. KnownInv'
    BY <1>16 DEF RestoreDotenv, MutexInv, KnownInv
  <2>5. FilesInv'
    <3> SUFFICES ASSUME Undisturbed'
                 PROVE  /\ (\A s \in Request : mutex' = s =>
                               kind'[s] \notin Saving \/ pc'[s] = "loaded")
                             => Disk' = committed'
                        /\ \A s \in Request : kind'[s] \in Saving => FilesOf(s)'
      BY DEF FilesInv
    <3>1. mutex = r /\ Undisturbed
      BY <1>16 DEF RestoreDotenv, MutexInv, Undisturbed
    <3>2. pc'[r] # "unconfirmed"
      BY DEF Undisturbed
    <3>3. kind[r] \in Saving
      BY <1>16 DEF RestoreDotenv, MutexInv
    <3>4. FilesOf(r)
      BY <3>1, <3>3 DEF FilesInv
    <3>5. mutex' = r /\ pc'[r] # "loaded" /\ kind' = kind
      BY <1>16, <3>1, <3>2 DEF RestoreDotenv
    <3>6. FilesOf(r)'
      BY <1>16, <3>1, <3>2, <3>3, <3>4 DEF RestoreDotenv, FilesOf, UpdatedDotenv
    <3>7. ASSUME NEW s \in Request, s # r PROVE FilesOf(s)'
      <4>1. pc'[s] \notin Held
        BY <1>16, <3>1, <3>7 DEF RestoreDotenv, MutexInv
      <4>2. QED
        BY <4>1 DEF FilesOf
    <3>8. QED
      BY <3>3, <3>5, <3>6, <3>7
  <2>6. QED
    BY ONLY <2>1, <2>a, <2>b, <2>2, <2>3, <2>4, <2>5 DEF IInv
<1>17. ASSUME NEW r \in Request, RestoreJar(r) PROVE IInv'
  <2>1. TypeOK'
    BY <1>17 DEF RestoreJar
  <2>a. MutexInv'
    BY <1>17 DEF RestoreJar, MutexInv
  <2>b. TaskInv'
    BY <1>17 DEF RestoreJar, MutexInv, TaskInv
  <2>2. BridgeInv'
    BY <1>17 DEF RestoreJar, MutexInv, TaskInv, BridgeInv
  <2>3. QuietInv'
    BY <1>17 DEF RestoreJar, MutexInv, TaskInv, BridgeInv, QuietInv
  <2>4. KnownInv'
    BY <1>17 DEF RestoreJar, MutexInv, KnownInv
  <2>5. FilesInv'
    BY <1>17 DEF RestoreJar, MutexInv, FilesInv, FilesOf, Undisturbed, UpdatedDotenv
  <2>6. QED
    BY ONLY <2>1, <2>a, <2>b, <2>2, <2>3, <2>4, <2>5 DEF IInv
<1>18. ASSUME NEW r \in Request, Report(r) PROVE IInv'
  <2>1. TypeOK'
    BY <1>18 DEF Report
  <2>a. MutexInv'
    BY <1>18 DEF Report, MutexInv
  <2>b. TaskInv'
    BY <1>18 DEF Report, MutexInv, TaskInv
  <2>2. BridgeInv'
    BY <1>18, SMTT(60) DEF Report, MutexInv, TaskInv, BridgeInv
  <2>3. QuietInv'
    BY <1>18, SMTT(60) DEF Report, MutexInv, TaskInv, BridgeInv, QuietInv
  <2>4. KnownInv'
    BY <1>18 DEF Report, MutexInv, KnownInv
  <2>5. FilesInv'
    BY <1>18, SMTT(60) DEF Report, MutexInv, FilesInv, FilesOf, Undisturbed, UpdatedDotenv
  <2>6. QED
    BY ONLY <2>1, <2>a, <2>b, <2>2, <2>3, <2>4, <2>5 DEF IInv
<1>19. ASSUME NEW r \in Request, Enter(r) PROVE IInv'
  <2>1. TypeOK'
    <3>1. task' \in [Actor -> {"none", "waiting"} \cup Holding \cup Finished]
      BY <1>19 DEF Enter, LoadApplication, Return
    <3>2. /\ loaded' \in [Actor \cup {Session} -> Revisions \cup {None}]
          /\ label' \in Revisions \cup {None} /\ cache' \in Revisions \cup {None}
      BY <1>19 DEF Enter, DropApplication, LoadApplication
    <3>3. answer' \in [Request -> Revisions \cup {None}]
      BY <1>19 DEF Enter, Return
    <3>4. bridge' \in Actor \cup {Session, None, "orphan", "foreign", "probe"}
      BY <1>19 DEF Enter
    <3>5. UNCHANGED <<kind, diskVars, mutex, pc, shown, seen, original, main, up>>
      BY <1>19 DEF Enter
    <3>6. QED
      BY <3>1, <3>2, <3>3, <3>4, <3>5
  <2>a. MutexInv'
    BY <1>19 DEF Enter, Current, DropApplication, LoadApplication, Return, LockFree, MutexInv
  <2>b. TaskInv'
    BY <1>19 DEF Enter, Current, DropApplication, LoadApplication, Return, LockFree, MutexInv, TaskInv
  <2>2. BridgeInv'
    BY <1>19 DEF Enter, Current, DropApplication, LoadApplication, Return, LockFree, MutexInv, TaskInv, BridgeInv
  <2>3. QuietInv'
    BY <1>19 DEF Enter, Current, DropApplication, LoadApplication, Return, LockFree, MutexInv, TaskInv, BridgeInv, QuietInv
  <2>4. KnownInv'
    BY <1>19 DEF Enter, Current, DropApplication, LoadApplication, Return, LockFree, MutexInv, KnownInv
  <2>5. FilesInv'
    BY <1>19 DEF Enter, Current, DropApplication, LoadApplication, Return, LockFree, MutexInv, FilesInv, FilesOf, Undisturbed, UpdatedDotenv
  <2>6. QED
    BY ONLY <2>1, <2>a, <2>b, <2>2, <2>3, <2>4, <2>5 DEF IInv
<1>20. ASSUME NEW r \in Request, Reload(r) PROVE IInv'
  <2>1. TypeOK'
    <3>1. task' \in [Actor -> {"none", "waiting"} \cup Holding \cup Finished]
      BY <1>20 DEF Reload, LoadApplication
    <3>2. /\ loaded' \in [Actor \cup {Session} -> Revisions \cup {None}]
          /\ bridge' \in Actor \cup {Session, None, "orphan", "foreign", "probe"}
      BY <1>20 DEF Reload, LoadApplication
    <3>3. UNCHANGED <<kind, diskVars, requestVars, label, cache, main, up>>
      BY <1>20 DEF Reload
    <3>4. QED
      BY <3>1, <3>2, <3>3
  <2>a. MutexInv'
    BY <1>20 DEF Reload, LoadApplication, MutexInv
  <2>b. TaskInv'
    BY <1>20, SMTT(60) DEF Reload, LoadApplication, MutexInv, TaskInv
  <2>2. BridgeInv'
    BY <1>20 DEF Reload, LoadApplication, MutexInv, TaskInv, BridgeInv
  <2>3. QuietInv'
    BY <1>20 DEF Reload, LoadApplication, MutexInv, TaskInv, BridgeInv, QuietInv
  <2>4. KnownInv'
    BY <1>20 DEF Reload, LoadApplication, MutexInv, KnownInv
  <2>5. FilesInv'
    BY <1>20 DEF Reload, LoadApplication, MutexInv, FilesInv, FilesOf, Undisturbed, UpdatedDotenv
  <2>6. QED
    BY ONLY <2>1, <2>a, <2>b, <2>2, <2>3, <2>4, <2>5 DEF IInv
<1>21. ASSUME NEW r \in Request, Spawn(r) PROVE IInv'
  <2>1. TypeOK'
    BY <1>21 DEF Spawn
  <2>a. MutexInv'
    BY <1>21 DEF Spawn, MutexInv
  <2>b. TaskInv'
    BY <1>21 DEF Spawn, MutexInv, TaskInv
  <2>2. BridgeInv'
    BY <1>21 DEF Spawn, MutexInv, TaskInv, BridgeInv
  <2>3. QuietInv'
    BY <1>21 DEF Spawn, MutexInv, TaskInv, BridgeInv, QuietInv
  <2>4. KnownInv'
    BY <1>21 DEF Spawn, MutexInv, KnownInv
  <2>5. FilesInv'
    BY <1>21 DEF Spawn, MutexInv, FilesInv, FilesOf, Undisturbed, UpdatedDotenv
  <2>6. QED
    BY ONLY <2>1, <2>a, <2>b, <2>2, <2>3, <2>4, <2>5 DEF IInv
<1>22. ASSUME NEW r \in Request, Started(r) PROVE IInv'
  <2>1. TypeOK'
    BY <1>22 DEF Started
  <2>a. MutexInv'
    BY <1>22 DEF Started, MutexInv
  <2>b. TaskInv'
    BY <1>22 DEF Started, MutexInv, TaskInv
  <2>2. BridgeInv'
    BY <1>22 DEF Started, MutexInv, TaskInv, BridgeInv
  <2>3. QuietInv'
    BY <1>22 DEF Started, MutexInv, TaskInv, BridgeInv, QuietInv
  <2>4. KnownInv'
    BY <1>22 DEF Started, MutexInv, KnownInv
  <2>5. FilesInv'
    BY <1>22 DEF Started, MutexInv, FilesInv, FilesOf, Undisturbed, UpdatedDotenv
  <2>6. QED
    BY ONLY <2>1, <2>a, <2>b, <2>2, <2>3, <2>4, <2>5 DEF IInv
<1>23. ASSUME NEW r \in Request, FailStart(r) PROVE IInv'
  <2>1. TypeOK'
    BY <1>23 DEF FailStart
  <2>a. MutexInv'
    BY <1>23 DEF FailStart, MutexInv
  <2>b. TaskInv'
    BY <1>23 DEF FailStart, MutexInv, TaskInv
  <2>2. BridgeInv'
    BY <1>23 DEF FailStart, MutexInv, TaskInv, BridgeInv
  <2>3. QuietInv'
    BY <1>23 DEF FailStart, MutexInv, TaskInv, BridgeInv, QuietInv
  <2>4. KnownInv'
    BY <1>23 DEF FailStart, MutexInv, KnownInv
  <2>5. FilesInv'
    BY <1>23 DEF FailStart, MutexInv, FilesInv, FilesOf, Undisturbed, UpdatedDotenv
  <2>6. QED
    BY ONLY <2>1, <2>a, <2>b, <2>2, <2>3, <2>4, <2>5 DEF IInv
<1>24. ASSUME NEW r \in Request, Call(r) PROVE IInv'
  <2>1. TypeOK'
    <3>1. task' \in [Actor -> {"none", "waiting"} \cup Holding \cup Finished]
      BY <1>24 DEF Call, Return
    <3>2. cache' \in Revisions \cup {None} /\ answer' \in [Request -> Revisions \cup {None}]
      BY <1>24 DEF Call, Return
    <3>3. UNCHANGED <<kind, diskVars, mutex, pc, shown, seen, original, loaded, label,
                      bridge, main, up>>
      BY <1>24 DEF Call
    <3>4. QED
      BY <3>1, <3>2, <3>3
  <2>a. MutexInv'
    BY <1>24 DEF Call, Return, MutexInv
  <2>b. TaskInv'
    BY <1>24 DEF Call, Return, MutexInv, TaskInv
  <2>2. BridgeInv'
    BY <1>24 DEF Call, Return, MutexInv, TaskInv, BridgeInv
  <2>3. QuietInv'
    BY <1>24 DEF Call, Return, MutexInv, TaskInv, BridgeInv, QuietInv
  <2>4. KnownInv'
    BY <1>24 DEF Call, Return, MutexInv, KnownInv
  <2>5. FilesInv'
    BY <1>24 DEF Call, Return, MutexInv, FilesInv, FilesOf, Undisturbed, UpdatedDotenv
  <2>6. QED
    BY ONLY <2>1, <2>a, <2>b, <2>2, <2>3, <2>4, <2>5 DEF IInv
<1>25. ASSUME NEW a \in Actor, EnterClose(a) PROVE IInv'
  <2>1. TypeOK'
    <3>1. task' \in [Actor -> {"none", "waiting"} \cup Holding \cup Finished]
      BY <1>25 DEF EnterClose
    <3>2. /\ label' \in Revisions \cup {None} /\ cache' \in Revisions \cup {None}
          /\ bridge' \in Actor \cup {Session, None, "orphan", "foreign", "probe"}
      BY <1>25 DEF EnterClose, DropApplication
    <3>3. UNCHANGED <<kind, diskVars, requestVars, loaded, main, up>>
      BY <1>25 DEF EnterClose
    <3>4. QED
      BY <3>1, <3>2, <3>3
  <2>a. MutexInv'
    BY <1>25 DEF EnterClose, Closing, DropApplication, LockFree, MutexInv
  <2>b. TaskInv'
    BY <1>25 DEF EnterClose, Closing, DropApplication, LockFree, MutexInv, TaskInv
  <2>2. BridgeInv'
    BY <1>25 DEF EnterClose, Closing, DropApplication, LockFree, MutexInv, TaskInv, BridgeInv
  <2>3. QuietInv'
    BY <1>25 DEF EnterClose, Closing, DropApplication, LockFree, MutexInv, TaskInv, BridgeInv, QuietInv
  <2>4. KnownInv'
    BY <1>25 DEF EnterClose, Closing, DropApplication, LockFree, MutexInv, KnownInv
  <2>5. FilesInv'
    BY <1>25 DEF EnterClose, Closing, DropApplication, LockFree, MutexInv, FilesInv, FilesOf, Undisturbed, UpdatedDotenv
  <2>6. QED
    BY ONLY <2>1, <2>a, <2>b, <2>2, <2>3, <2>4, <2>5 DEF IInv
<1>26. ASSUME NEW a \in Actor, FinishClose(a) PROVE IInv'
  <2>1. TypeOK'
    BY <1>26 DEF FinishClose, Closing
  <2>a. MutexInv'
    BY <1>26 DEF FinishClose, Closing, MutexInv
  <2>b. TaskInv'
    BY <1>26 DEF FinishClose, Closing, MutexInv, TaskInv
  <2>2. BridgeInv'
    BY <1>26 DEF FinishClose, Closing, MutexInv, TaskInv, BridgeInv
  <2>3. QuietInv'
    BY <1>26 DEF FinishClose, Closing, MutexInv, TaskInv, BridgeInv, QuietInv
  <2>4. KnownInv'
    BY <1>26 DEF FinishClose, Closing, MutexInv, KnownInv
  <2>5. FilesInv'
    BY <1>26 DEF FinishClose, Closing, MutexInv, FilesInv, FilesOf, Undisturbed, UpdatedDotenv
  <2>6. QED
    BY ONLY <2>1, <2>a, <2>b, <2>2, <2>3, <2>4, <2>5 DEF IInv
<1>27. ASSUME NEW a \in Actor, Unwind(a) PROVE IInv'
  <2>1. TypeOK'
    BY <1>27 DEF Unwind
  <2>a. MutexInv'
    BY <1>27 DEF Unwind, MutexInv
  <2>b. TaskInv'
    BY <1>27 DEF Unwind, MutexInv, TaskInv
  <2>2. BridgeInv'
    BY <1>27 DEF Unwind, MutexInv, TaskInv, BridgeInv
  <2>3. QuietInv'
    BY <1>27 DEF Unwind, MutexInv, TaskInv, BridgeInv, QuietInv
  <2>4. KnownInv'
    BY <1>27 DEF Unwind, MutexInv, KnownInv
  <2>5. FilesInv'
    BY <1>27 DEF Unwind, MutexInv, FilesInv, FilesOf, Undisturbed, UpdatedDotenv
  <2>6. QED
    BY ONLY <2>1, <2>a, <2>b, <2>2, <2>3, <2>4, <2>5 DEF IInv
<1>28. ASSUME Close PROVE IInv'
  <2>1. TypeOK'
    BY <1>28 DEF Close
  <2>a. MutexInv'
    BY <1>28 DEF Close, MutexInv
  <2>b. TaskInv'
    BY <1>28 DEF Close, MutexInv, TaskInv
  <2>2. BridgeInv'
    BY <1>28 DEF Close, MutexInv, TaskInv, BridgeInv
  <2>3. QuietInv'
    BY <1>28 DEF Close, MutexInv, TaskInv, BridgeInv, QuietInv
  <2>4. KnownInv'
    BY <1>28 DEF Close, MutexInv, KnownInv
  <2>5. FilesInv'
    BY <1>28 DEF Close, MutexInv, FilesInv, FilesOf, Undisturbed, UpdatedDotenv
  <2>6. QED
    BY ONLY <2>1, <2>a, <2>b, <2>2, <2>3, <2>4, <2>5 DEF IInv
<1>29. ASSUME StopLoop PROVE IInv'
  <2>1. TypeOK'
    BY <1>29 DEF StopLoop, Cancelled
  <2>a. MutexInv'
    BY <1>29 DEF StopLoop, Cancelled, MutexInv
  <2>b. TaskInv'
    BY <1>29 DEF StopLoop, Cancelled, MutexInv, TaskInv
  <2>2. BridgeInv'
    BY <1>29 DEF StopLoop, Cancelled, MutexInv, TaskInv, BridgeInv
  <2>3. QuietInv'
    BY <1>29 DEF StopLoop, Cancelled, MutexInv, TaskInv, BridgeInv, QuietInv
  <2>4. KnownInv'
    BY <1>29 DEF StopLoop, Cancelled, MutexInv, KnownInv
  <2>5. FilesInv'
    BY <1>29 DEF StopLoop, Cancelled, MutexInv, FilesInv, FilesOf, Undisturbed, UpdatedDotenv
  <2>6. QED
    BY ONLY <2>1, <2>a, <2>b, <2>2, <2>3, <2>4, <2>5 DEF IInv
<1>30. ASSUME Exit PROVE IInv'
  <2>1. TypeOK'
    <3>1. up' \in BOOLEAN
      BY <1>30, Zenon DEF Exit
    <3>2. QED
      BY <1>30, <3>1 DEF Exit
  <2>a. MutexInv'
    BY <1>30 DEF Exit, MutexInv
  <2>b. TaskInv'
    BY <1>30 DEF Exit, MutexInv, TaskInv
  <2>2. BridgeInv'
    BY <1>30 DEF Exit, MutexInv, TaskInv, BridgeInv
  <2>3. QuietInv'
    BY <1>30 DEF Exit, MutexInv, TaskInv, BridgeInv, QuietInv
  <2>4. KnownInv'
    BY <1>30 DEF Exit, MutexInv, KnownInv
  <2>5. FilesInv'
    BY <1>30 DEF Exit, MutexInv, FilesInv, FilesOf, Undisturbed, UpdatedDotenv
  <2>6. QED
    BY ONLY <2>1, <2>a, <2>b, <2>2, <2>3, <2>4, <2>5 DEF IInv
<1>33. ASSUME ForeignBridge PROVE IInv'
  <2>1. TypeOK'
    BY <1>33 DEF ForeignBridge
  <2>a. MutexInv'
    BY <1>33 DEF ForeignBridge, MutexInv
  <2>b. TaskInv'
    BY <1>33 DEF ForeignBridge, MutexInv, TaskInv
  <2>2. BridgeInv'
    BY <1>33 DEF ForeignBridge, MutexInv, TaskInv, BridgeInv
  <2>3. QuietInv'
    BY <1>33 DEF ForeignBridge, MutexInv, TaskInv, BridgeInv, QuietInv
  <2>4. KnownInv'
    BY <1>33 DEF ForeignBridge, MutexInv, KnownInv
  <2>5. FilesInv'
    BY <1>33 DEF ForeignBridge, MutexInv, FilesInv, FilesOf, Undisturbed, UpdatedDotenv
  <2>6. QED
    BY ONLY <2>1, <2>a, <2>b, <2>2, <2>3, <2>4, <2>5 DEF IInv
<1>31. ASSUME NEW e \in Edit, EditFile(e) PROVE IInv'
  <2>1. TypeOK'
    BY <1>31 DEF EditFile
  <2>a. MutexInv'
    BY <1>31 DEF EditFile, MutexInv
  <2>b. TaskInv'
    BY <1>31 DEF EditFile, MutexInv, TaskInv
  <2>2. BridgeInv'
    BY <1>31 DEF EditFile, MutexInv, TaskInv, BridgeInv
  <2>3. QuietInv'
    BY <1>31 DEF EditFile, MutexInv, TaskInv, BridgeInv, QuietInv
  <2>4. KnownInv'
    BY <1>31 DEF EditFile, MutexInv, KnownInv
  <2>5. FilesInv'
    <3> SUFFICES ASSUME Undisturbed' PROVE FilesInv'
      BY DEF FilesInv
    <3>1. Undisturbed /\ mutex = None /\ mutex' = mutex /\ pc' = pc /\ kind' = kind
      BY <1>31 DEF EditFile, Undisturbed
    <3>2. Disk = committed
      BY <3>1 DEF FilesInv
    <3>3. Disk' = committed'
      BY <1>31, <3>2 DEF EditFile
    <3>4. \A s \in Request : pc'[s] \notin Held
      BY <3>1 DEF MutexInv
    <3>5. \A s \in Request : FilesOf(s)'
      BY <3>4 DEF FilesOf
    <3>6. QED
      BY <3>3, <3>5 DEF FilesInv
  <2>6. QED
    BY ONLY <2>1, <2>a, <2>b, <2>2, <2>3, <2>4, <2>5 DEF IInv
<1>32. CASE UNCHANGED vars
  <2>1. TypeOK' /\ MutexInv' /\ TaskInv'
    BY <1>32 DEF vars, MutexInv, TaskInv
  <2>2. BridgeInv' /\ QuietInv' /\ KnownInv'
    BY <1>32 DEF vars, BridgeInv, QuietInv, KnownInv
  <2>3. FilesInv'
    BY <1>32 DEF vars, FilesInv, FilesOf, Undisturbed, UpdatedDotenv
  <2>4. QED
    BY ONLY <2>1, <2>2, <2>3 DEF IInv
<1>34. ASSUME NEW r \in Request, Inspect(r) PROVE IInv'
  <2>1. TypeOK'
    BY <1>34 DEF Inspect
  <2>a. MutexInv'
    BY <1>34 DEF Inspect, MutexInv
  <2>b. TaskInv'
    BY <1>34 DEF Inspect, MutexInv, TaskInv
  <2>2. BridgeInv'
    BY <1>34 DEF Inspect, MutexInv, TaskInv, BridgeInv
  <2>3. QuietInv'
    BY <1>34 DEF Inspect, MutexInv, TaskInv, BridgeInv, QuietInv
  <2>4. KnownInv'
    BY <1>34 DEF Inspect, MutexInv, KnownInv
  <2>5. FilesInv'
    BY <1>34 DEF Inspect, MutexInv, FilesInv, FilesOf, Undisturbed, UpdatedDotenv
  <2>6. QED
    BY ONLY <2>1, <2>a, <2>b, <2>2, <2>3, <2>4, <2>5 DEF IInv
<1>35. QED
  BY ONLY [Next]_vars, <1>1, <1>2, <1>3, <1>4, <1>5, <1>6, <1>7, <1>8, <1>9, <1>10, <1>11, <1>12,
     <1>13, <1>14, <1>15, <1>16, <1>17, <1>18, <1>19, <1>20, <1>21, <1>22, <1>23, <1>24, <1>25,
     <1>26, <1>27, <1>28, <1>29, <1>30, <1>31, <1>32, <1>33, <1>34
     DEF Next, Step

\* The invariant behind the properties of the files, for any number of requests
\* and edits.
THEOREM DashboardInvariance == Spec => []IInv
<1>1. Init => IInv
  BY InitInvariant
<1>2. IInv /\ [Next]_vars => IInv'
  BY StepInvariant
<1>3. QED
  BY <1>1, <1>2, PTL DEF Spec

\* The variables keep their types.
THEOREM DashboardTypes == Spec => []TypeOK
<1>1. IInv => TypeOK
  BY DEF IInv
<1>2. QED
  BY <1>1, DashboardInvariance, PTL

\* configure leaves helix.yaml, .env and the JAR of one save, or restores those
\* of the save before, whichever step fails.
THEOREM FilesStayTogether == Spec => []FilesBelongTogether
<1>1. IInv => FilesBelongTogether
  BY DashboardConfigAssumption
  DEF IInv, TypeOK, MutexInv, FilesInv, FilesBelongTogether, Undisturbed
<1>2. QED
  BY <1>1, DashboardInvariance, PTL

\* configure writes over nothing but what the page of the request showed.
THEOREM EditsAreKept == Spec => NoEditLost
<1>1. IInv /\ [Next]_vars =>
        \A r \in Request :
          mutex = r /\ edited' = edited /\ r \notin disturbed =>
            /\ config' # config => config \in {shown[r][1], r}
            /\ dotenv' # dotenv => dotenv \in {shown[r][2], r}
  <2> SUFFICES ASSUME IInv, [Next]_vars, NEW r \in Request,
                      mutex = r, edited' = edited, r \notin disturbed
               PROVE  /\ config' # config => config \in {shown[r][1], r}
                      /\ dotenv' # dotenv => dotenv \in {shown[r][2], r}
    OBVIOUS
  <2> USE DashboardConfigAssumption
      DEF IInv, TypeOK, diskVars, requestVars, sessionVars
  <2>1. CASE UNCHANGED <<config, dotenv>>
    BY <2>1
  <2>2. ASSUME NEW s \in Request,
               WriteConfig(s) \/ WriteDotenv(s) \/ RestoreConfig(s) \/ RestoreDotenv(s)
        PROVE  /\ config' # config => config \in {shown[r][1], r}
               /\ dotenv' # dotenv => dotenv \in {shown[r][2], r}
    <3>1. s = r /\ pc[s] \in {"built", "prepared", "half", "failing", "restoring"}
          /\ kind[s] \in Saving
      BY <2>2 DEF WriteConfig, NeedsSession, WriteDotenv, RestoreConfig, RestoreDotenv, MutexInv,
                  Held, Writing, Undoing, SavingOnly, Saving
    <3>2. QED
      BY <2>2, <3>1
      DEF WriteConfig, NeedsSession, WriteDotenv, RestoreConfig, RestoreDotenv, KnownInv, Unwritten,
          Undoing, Revision, Saving
  <2>3. QED
    BY <2>1, <2>2
    DEF Next, Step, vars, Reject, State, Show, Configure, Begin, Submit, Reply, Timeout,
        Prepare, Build, Verify, Apply, RestoreJar, Inspect, Report, Enter, Reload, Spawn, Started,
        FailStart, Call, EnterClose, FinishClose, Unwind, Close, StopLoop, Exit, ForeignBridge, EditFile
<1>2. QED
  BY <1>1, DashboardInvariance, PTL DEF Spec, NoEditLost

\* configure replaces the JAR by that of another library when no bridge that this
\* dashboard started and answers for runs from it.
THEOREM JarIsNotInUse == Spec => JarNotInUse
<1>1. ASSUME IInv, [Next]_vars, jar' # jar PROVE Quiet
  <2> USE <1>1, DashboardConfigAssumption
      DEF IInv, TypeOK, diskVars, requestVars, sessionVars
  <2>1. PICK r \in Request : Build(r) \/ RestoreJar(r)
    BY DEF Next, Step, vars, Reject, State, Show, Configure, Begin, Submit, Reply,
        Timeout, Prepare, WriteConfig, WriteDotenv, RestoreConfig, RestoreDotenv,
        Verify, Apply, Inspect, Report, Enter, Reload, Spawn, Started, FailStart, Call,
        EnterClose, FinishClose, Unwind, Close, StopLoop, Exit, ForeignBridge, EditFile
  <2>2. QED
    BY <2>1 DEF Build, RestoreJar, QuietInv, Quiet, Writing, Undoing
<1>2. QED
  BY <1>1, DashboardInvariance, PTL DEF Spec, JarNotInUse

(***************************************************************************)
(* Where an answer comes from                                              *)
(***************************************************************************)

\* Who has written each file: a request is among them from its write on, and
\* nobody writes a second time what was replaced.
Unspent ==
  {"idle", "page", "loaded", "checked", "prepared", "asking", "released", "built"}
Used == {Initial} \cup edited \cup {r \in Request : pc[r] \notin Unspent}
UsedLater == {Initial} \cup edited \cup {r \in Request : pc[r] \notin Unspent \cup {"half"}}

UsedInv ==
  /\ config \in Used /\ dotenv \in UsedLater
  /\ \A r \in Request :
       /\ seen[r] \in Used \X UsedLater
       /\ original[r].config \in Used /\ original[r].dotenv \in UsedLater

\* The files are not of this revision, and will not be again.
Gone(revision) ==
  \/ /\ config # revision[1]
     /\ \A r \in Request :
          kind[r] \in Saving /\ pc[r] \in Saved => original[r].config # revision[1]
  \/ /\ dotenv # revision[2]
     /\ \A r \in Request :
          kind[r] \in Saving /\ pc[r] \in Saved => original[r].dotenv # revision[2]

\* An application loaded while the files were edited is taken for one of a
\* revision that is gone.
LabelInv ==
  /\ label # None => label \in Used \X UsedLater
  /\ label # None /\ loaded[Session] # label => Gone(label)
  /\ cache # None => label # None /\ cache = loaded[Session]

CatalogOf(r) ==
  /\ mutex = r => seen[r] = Revision \/ (r \in disturbed /\ Gone(seen[r]))
  /\ task[r] = "starting" => loaded[r] = seen[r] \/ Gone(seen[r])
  /\ task[r] = "calling" => label = seen[r]
  /\ (task[r] = "done" \/ pc[r] = "served") /\ r \notin disturbed =>
       answer[r] = seen[r]

CatalogInv ==
  \A r \in Request :
    /\ kind[r] = "discover" => CatalogOf(r)
    /\ pc[r] = "served" => kind[r] = "discover"

OriginInv == UsedInv /\ LabelInv /\ CatalogInv

\* The steps of the session, of its tasks and of the main thread.
SessionStep ==
  \/ \E r \in Request : Enter(r) \/ Reload(r) \/ Spawn(r) \/ Started(r) \/ FailStart(r)
       \/ Call(r)
  \/ \E a \in Actor : EnterClose(a) \/ FinishClose(a) \/ Unwind(a)
  \/ Close \/ StopLoop \/ Exit \/ ForeignBridge

\* They write no file and answer no request.
LEMMA SessionLeavesFiles ==
  ASSUME SessionStep \/ UNCHANGED vars
  PROVE  UNCHANGED <<kind, diskVars, mutex, pc, seen, original>>
BY DEF SessionStep, vars, diskVars, requestVars, Enter, Reload, Spawn, Started, FailStart,
       Call, EnterClose, FinishClose, Unwind, Close, StopLoop, Exit, ForeignBridge

\* Who has written stays among those who have, and the files come from them.
LEMMA UsedStep ==
  ASSUME TypeOK, MutexInv, UsedInv, [Next]_vars
  PROVE  UsedInv' /\ Used \subseteq Used' /\ UsedLater \subseteq UsedLater' 
<1> USE DashboardConfigAssumption
    DEF TypeOK, Goto, End, Saved, Writing, Undoing, Disk, Revision,
        UsedInv, Used, UsedLater, Unspent, Author, Revisions, FileSet, diskVars,
           sessionVars
<1>1. ASSUME NEW r \in Request, Reject(r)
      PROVE  UsedInv' /\ Used \subseteq Used' /\ UsedLater \subseteq UsedLater'
  BY <1>1 DEF Reject
<1>2. ASSUME NEW r \in Request, State(r)
      PROVE  UsedInv' /\ Used \subseteq Used' /\ UsedLater \subseteq UsedLater'
  BY <1>2 DEF State
<1>3. ASSUME NEW r \in Request, Show(r)
      PROVE  UsedInv' /\ Used \subseteq Used' /\ UsedLater \subseteq UsedLater'
  BY <1>3 DEF Show
<1>4. ASSUME NEW r \in Request, Configure(r)
      PROVE  UsedInv' /\ Used \subseteq Used' /\ UsedLater \subseteq UsedLater'
  BY <1>4 DEF Configure
<1>5. ASSUME NEW r \in Request, Begin(r)
      PROVE  UsedInv' /\ Used \subseteq Used' /\ UsedLater \subseteq UsedLater'
  <2>1. CASE seen' = [seen EXCEPT ![r] = Revision]
    BY <1>5, <2>1 DEF Begin
  <2>2. CASE UNCHANGED seen
    BY <1>5, <2>2 DEF Begin
  <2>3. QED
    BY <1>5, <2>1, <2>2 DEF Begin
<1>6. ASSUME NEW r \in Request, Submit(r)
      PROVE  UsedInv' /\ Used \subseteq Used' /\ UsedLater \subseteq UsedLater'
  BY <1>6 DEF Submit, NeedsSession
<1>7. ASSUME NEW r \in Request, Reply(r)
      PROVE  UsedInv' /\ Used \subseteq Used' /\ UsedLater \subseteq UsedLater'
  BY <1>7 DEF Reply
<1>8. ASSUME NEW r \in Request, Timeout(r)
      PROVE  UsedInv' /\ Used \subseteq Used' /\ UsedLater \subseteq UsedLater'
  BY <1>8 DEF Timeout, Cancelled
<1>9. ASSUME NEW r \in Request, Prepare(r)
      PROVE  UsedInv' /\ Used \subseteq Used' /\ UsedLater \subseteq UsedLater'
  BY <1>9 DEF Prepare
<1>10. ASSUME NEW r \in Request, Build(r)
       PROVE  UsedInv' /\ Used \subseteq Used' /\ UsedLater \subseteq UsedLater'
  BY <1>10 DEF Build
<1>11. ASSUME NEW r \in Request, WriteConfig(r)
       PROVE  UsedInv' /\ Used \subseteq Used' /\ UsedLater \subseteq UsedLater'
  BY <1>11 DEF WriteConfig, NeedsSession
<1>12. ASSUME NEW r \in Request, WriteDotenv(r)
       PROVE  UsedInv' /\ Used \subseteq Used' /\ UsedLater \subseteq UsedLater'
  BY <1>12 DEF WriteDotenv, UpdatedDotenv
<1>13. ASSUME NEW r \in Request, Verify(r)
       PROVE  UsedInv' /\ Used \subseteq Used' /\ UsedLater \subseteq UsedLater'
  BY <1>13 DEF Verify, UpdatedDotenv
<1>14. ASSUME NEW r \in Request, Apply(r)
       PROVE  UsedInv' /\ Used \subseteq Used' /\ UsedLater \subseteq UsedLater'
  BY <1>14 DEF Apply
<1>15. ASSUME NEW r \in Request, RestoreConfig(r)
       PROVE  UsedInv' /\ Used \subseteq Used' /\ UsedLater \subseteq UsedLater'
  BY <1>15 DEF RestoreConfig
<1>16. ASSUME NEW r \in Request, RestoreDotenv(r)
       PROVE  UsedInv' /\ Used \subseteq Used' /\ UsedLater \subseteq UsedLater'
  BY <1>16 DEF RestoreDotenv
<1>17. ASSUME NEW r \in Request, RestoreJar(r)
       PROVE  UsedInv' /\ Used \subseteq Used' /\ UsedLater \subseteq UsedLater'
  BY <1>17 DEF RestoreJar
<1>18. ASSUME NEW r \in Request, Inspect(r)
       PROVE  UsedInv' /\ Used \subseteq Used' /\ UsedLater \subseteq UsedLater'
  BY <1>18 DEF Inspect
<1>19. ASSUME NEW r \in Request, Report(r)
       PROVE  UsedInv' /\ Used \subseteq Used' /\ UsedLater \subseteq UsedLater'
  BY <1>19 DEF Report
<1>20. ASSUME NEW e \in Edit, EditFile(e)
       PROVE  UsedInv' /\ Used \subseteq Used' /\ UsedLater \subseteq UsedLater'
  <2>1. edited' = edited \cup {e} /\ UNCHANGED <<pc, seen, original>>
    BY <1>20 DEF EditFile, requestVars
  <2>2. /\ Used \subseteq Used' /\ e \in Used'
        /\ UsedLater \subseteq UsedLater' /\ e \in UsedLater'
    BY <2>1
  <2>3. config' \in {config, e} /\ dotenv' \in {dotenv, e}
    BY <1>20 DEF EditFile
  <2> HIDE DEF Used, UsedLater
  <2>4. QED
    BY <2>1, <2>2, <2>3
<1>21. CASE SessionStep \/ UNCHANGED vars
  BY <1>21, SessionLeavesFiles
<1>22. QED
  BY ONLY [Next]_vars, <1>1, <1>2, <1>3, <1>4, <1>5, <1>6, <1>7, <1>8, <1>9, <1>10,
     <1>11, <1>12, <1>13, <1>14, <1>15, <1>16, <1>17, <1>18, <1>19, <1>20, <1>21
     DEF Next, Step, SessionStep

\* A revision that is gone does not come back.
LEMMA GoneStep ==
  ASSUME TypeOK, MutexInv, UsedInv, [Next]_vars, NEW v \in Used \X UsedLater, Gone(v)
  PROVE  Gone(v)' 
<1> USE DashboardConfigAssumption
    DEF TypeOK, Goto, End, Saved, Writing, Undoing, Saving, Disk, Revision,
        UsedInv, Used, UsedLater, Unspent, Gone, Author, FileSet, diskVars, sessionVars
<1>1. ASSUME NEW r \in Request, Reject(r) PROVE Gone(v)'
  BY <1>1 DEF Reject
<1>2. ASSUME NEW r \in Request, State(r) PROVE Gone(v)'
  BY <1>2 DEF State
<1>3. ASSUME NEW r \in Request, Show(r) PROVE Gone(v)'
  BY <1>3 DEF Show
<1>4. ASSUME NEW r \in Request, Configure(r) PROVE Gone(v)'
  BY <1>4 DEF Configure
<1>5. ASSUME NEW r \in Request, Begin(r) PROVE Gone(v)'
  BY <1>5 DEF Begin
<1>6. ASSUME NEW r \in Request, Submit(r) PROVE Gone(v)'
  BY <1>6 DEF Submit, NeedsSession
<1>7. ASSUME NEW r \in Request, Reply(r) PROVE Gone(v)'
  BY <1>7 DEF Reply
<1>8. ASSUME NEW r \in Request, Timeout(r) PROVE Gone(v)'
  BY <1>8 DEF Timeout, Cancelled
<1>9. ASSUME NEW r \in Request, Prepare(r) PROVE Gone(v)'
  BY <1>9 DEF Prepare
<1>10. ASSUME NEW r \in Request, Build(r) PROVE Gone(v)'
  BY <1>10 DEF Build
<1>11. ASSUME NEW r \in Request, WriteConfig(r) PROVE Gone(v)'
  BY <1>11 DEF WriteConfig, NeedsSession
<1>12. ASSUME NEW r \in Request, WriteDotenv(r) PROVE Gone(v)'
  <2>1. kind[r] \in Saving
    BY <1>12 DEF WriteDotenv, MutexInv, SavingOnly
  <2>2. QED
    BY <1>12, <2>1 DEF WriteDotenv, UpdatedDotenv
<1>13. ASSUME NEW r \in Request, Verify(r) PROVE Gone(v)'
  BY <1>13 DEF Verify, UpdatedDotenv
<1>14. ASSUME NEW r \in Request, Apply(r) PROVE Gone(v)'
  BY <1>14 DEF Apply
<1>15. ASSUME NEW r \in Request, RestoreConfig(r) PROVE Gone(v)'
  <2>1. kind[r] \in Saving
    BY <1>15 DEF RestoreConfig, MutexInv, SavingOnly
  <2>2. QED
    BY <1>15, <2>1 DEF RestoreConfig
<1>16. ASSUME NEW r \in Request, RestoreDotenv(r) PROVE Gone(v)'
  <2>1. kind[r] \in Saving
    BY <1>16 DEF RestoreDotenv, MutexInv, SavingOnly
  <2>2. QED
    BY <1>16, <2>1 DEF RestoreDotenv
<1>17. ASSUME NEW r \in Request, RestoreJar(r) PROVE Gone(v)'
  BY <1>17 DEF RestoreJar
<1>18. ASSUME NEW r \in Request, Inspect(r) PROVE Gone(v)'
  BY <1>18 DEF Inspect
<1>19. ASSUME NEW r \in Request, Report(r) PROVE Gone(v)'
  BY <1>19 DEF Report
<1>20. ASSUME NEW e \in Edit, EditFile(e) PROVE Gone(v)'
  <2>1. UNCHANGED <<kind, pc, original>> /\ e \notin Used \cup UsedLater
    BY <1>20 DEF EditFile, requestVars
  <2>2. config' \in {config, e} /\ dotenv' \in {dotenv, e}
    BY <1>20 DEF EditFile
  <2>3. v[1] # e /\ v[2] # e
    <3> HIDE DEF Used
    <3>1. QED
      BY <2>1
  <2>4. QED
    BY <2>1, <2>2, <2>3
<1>21. CASE SessionStep \/ UNCHANGED vars
  BY <1>21, SessionLeavesFiles
<1>22. QED
  BY ONLY [Next]_vars, <1>1, <1>2, <1>3, <1>4, <1>5, <1>6, <1>7, <1>8, <1>9, <1>10,
     <1>11, <1>12, <1>13, <1>14, <1>15, <1>16, <1>17, <1>18, <1>19, <1>20, <1>21
     DEF Next, Step, SessionStep

\* While a catalog is fetched only another program moves the files, and the
\* revision that was found does not come back.
LEMMA RevisionMoves ==
  ASSUME TypeOK, MutexInv, UsedInv, [Next]_vars,
         NEW c \in Request, kind[c] = "discover", mutex = c, NEW v, v = Revision
  PROVE  Revision' = v \/ (c \in disturbed' /\ Gone(v)')
<1> USE DashboardConfigAssumption DEF TypeOK, Revision, diskVars, sessionVars, requestVars
<1>1. ASSUME NEW r \in Request,
             WriteConfig(r) \/ WriteDotenv(r) \/ RestoreConfig(r) \/ RestoreDotenv(r)
      PROVE  FALSE
  <2>1. pc[r] \in {"built", "prepared", "half", "failing", "restoring"}
        /\ (kind[r] \in Saving \/ pc[r] # "prepared")
    BY <1>1 DEF WriteConfig, NeedsSession, WriteDotenv, RestoreConfig, RestoreDotenv,
       Saving, Kind
  <2>2. mutex = r /\ kind[r] \in Saving
    BY <2>1 DEF MutexInv, Held, Writing, Undoing, SavingOnly
  <2>3. QED
    BY <2>2 DEF Saving
<1>2. ASSUME NEW e \in Edit, EditFile(e)
      PROVE  Revision' = v \/ (c \in disturbed' /\ Gone(v)')
  <2>1. \A s \in Request : kind[s] \in Saving => pc[s] \notin Saved
    BY DEF MutexInv, Held, Saved, Writing, Undoing, Saving
  <2>2. config \in Used /\ dotenv \in UsedLater /\ e \notin Used \cup UsedLater
    BY <1>2 DEF EditFile, UsedInv, Used, UsedLater
  <2>3. c \in disturbed' /\ UNCHANGED <<kind, pc, original>>
    BY <1>2 DEF EditFile
  <2>4. config' = e \/ dotenv' = e
    BY <1>2 DEF EditFile
  <2>4a. v[1] = config /\ v[2] = dotenv /\ config # e /\ dotenv # e
    BY <2>2
  <2>5. Gone(v)'
    BY <2>1, <2>3, <2>4, <2>4a DEF Gone
  <2>6. QED
    BY <2>3, <2>5
<1>3. CASE UNCHANGED <<config, dotenv>>
  BY <1>3
<1>4. CASE SessionStep \/ UNCHANGED vars
  BY <1>4, SessionLeavesFiles
<1>5. CASE \E r \in Request :
             \/ Reject(r) \/ State(r) \/ Configure(r) \/ Begin(r) \/ Show(r) \/ Submit(r)
             \/ Reply(r) \/ Timeout(r) \/ Prepare(r) \/ Build(r) \/ Verify(r) \/ Apply(r)
             \/ RestoreJar(r) \/ Inspect(r) \/ Report(r)
  <2>1. UNCHANGED <<config, dotenv>>
    BY <1>5 DEF Reject, State, Configure, Begin, Show, Submit, Reply, Timeout, Prepare,
       Build,
       Verify, Apply, RestoreJar, Inspect, Report
  <2>2. QED
    BY <2>1
<1>6. QED
  BY ONLY [Next]_vars, <1>1, <1>2, <1>4, <1>5 DEF Next, Step, SessionStep

\* What the session takes its application for stays true, or gone.
LEMMA LabelStep ==
  ASSUME IInv, OriginInv, [Next]_vars
  PROVE  LabelInv'
<1>a. TypeOK /\ MutexInv /\ TaskInv /\ UsedInv /\ LabelInv /\ CatalogInv
  BY DEF IInv, OriginInv
<1>b. Used \subseteq Used' /\ UsedLater \subseteq UsedLater'
  BY <1>a, UsedStep
<1>c. \A v \in Used \X UsedLater : Gone(v) => Gone(v)'
  BY <1>a, GoneStep
<1>d. \A v \in Used \X UsedLater : v \in Revisions /\ v # None
  BY <1>a, DashboardConfigAssumption DEF Used, UsedLater, Revisions, Author, TypeOK
<1>e. \A r \in Request : task[r] = "starting" =>
        /\ seen[r] \in Used \X UsedLater
        /\ loaded[r] = seen[r] \/ Gone(seen[r])
  BY <1>a DEF TypeOK, TaskInv, UsedInv, CatalogInv, CatalogOf, Actor
<1>f. \A r \in Request : task[r] = "calling" => label = seen[r] /\ seen[r] \in Used \X UsedLater
  BY <1>a DEF TypeOK, TaskInv, UsedInv, CatalogInv, CatalogOf, Actor
<1> USE DashboardConfigAssumption, <1>a, <1>b, <1>c, <1>d, <1>e, <1>f
    DEF LabelInv, TypeOK, diskVars, requestVars, sessionVars, Session, Actor
<1>1. ASSUME NEW r \in Request, Reject(r) PROVE LabelInv'
  BY <1>1 DEF Reject
<1>2. ASSUME NEW r \in Request, State(r) PROVE LabelInv'
  BY <1>2 DEF State
<1>3. ASSUME NEW r \in Request, Show(r) PROVE LabelInv'
  BY <1>3 DEF Show
<1>4. ASSUME NEW r \in Request, Configure(r) PROVE LabelInv'
  BY <1>4 DEF Configure
<1>5. ASSUME NEW r \in Request, Begin(r) PROVE LabelInv'
  BY <1>5 DEF Begin
<1>6. ASSUME NEW r \in Request, Submit(r) PROVE LabelInv'
  BY <1>6 DEF Submit, NeedsSession
<1>7. ASSUME NEW r \in Request, Reply(r) PROVE LabelInv'
  BY <1>7 DEF Reply
<1>8. ASSUME NEW r \in Request, Timeout(r) PROVE LabelInv'
  BY <1>8 DEF Timeout, Cancelled
<1>9. ASSUME NEW r \in Request, Prepare(r) PROVE LabelInv'
  BY <1>9 DEF Prepare
<1>10. ASSUME NEW r \in Request, Build(r) PROVE LabelInv'
  BY <1>10 DEF Build
<1>11. ASSUME NEW r \in Request, WriteConfig(r) PROVE LabelInv'
  BY <1>11 DEF WriteConfig, NeedsSession
<1>12. ASSUME NEW r \in Request, WriteDotenv(r) PROVE LabelInv'
  BY <1>12 DEF WriteDotenv, UpdatedDotenv
<1>13. ASSUME NEW r \in Request, Verify(r) PROVE LabelInv'
  BY <1>13 DEF Verify, UpdatedDotenv
<1>14. ASSUME NEW r \in Request, Apply(r) PROVE LabelInv'
  BY <1>14 DEF Apply
<1>15. ASSUME NEW r \in Request, RestoreConfig(r) PROVE LabelInv'
  BY <1>15 DEF RestoreConfig
<1>16. ASSUME NEW r \in Request, RestoreDotenv(r) PROVE LabelInv'
  BY <1>16 DEF RestoreDotenv
<1>17. ASSUME NEW r \in Request, RestoreJar(r) PROVE LabelInv'
  BY <1>17 DEF RestoreJar
<1>18. ASSUME NEW r \in Request, Inspect(r) PROVE LabelInv'
  BY <1>18 DEF Inspect
<1>19. ASSUME NEW r \in Request, Report(r) PROVE LabelInv'
  BY <1>19 DEF Report
<1>20. ASSUME NEW r \in Request, Enter(r) PROVE LabelInv'
  BY <1>20 DEF Enter, Current, DropApplication, LoadApplication, Return, LockFree
<1>21. ASSUME NEW r \in Request, Reload(r) PROVE LabelInv'
  BY <1>21 DEF Reload, LoadApplication
<1>22. ASSUME NEW r \in Request, Spawn(r) PROVE LabelInv'
  BY <1>22 DEF Spawn
<1>23. ASSUME NEW r \in Request, Started(r) PROVE LabelInv'
  BY <1>23 DEF Started
<1>24. ASSUME NEW r \in Request, FailStart(r) PROVE LabelInv'
  BY <1>24 DEF FailStart
<1>25. ASSUME NEW r \in Request, Call(r) PROVE LabelInv'
  BY <1>25 DEF Call, Return
<1>26. ASSUME NEW a \in Actor, EnterClose(a) PROVE LabelInv'
  BY <1>26 DEF EnterClose, Closing, DropApplication, LockFree
<1>27. ASSUME NEW a \in Actor, FinishClose(a) PROVE LabelInv'
  BY <1>27 DEF FinishClose, Closing
<1>28. ASSUME NEW a \in Actor, Unwind(a) PROVE LabelInv'
  BY <1>28 DEF Unwind
<1>29. ASSUME Close PROVE LabelInv'
  BY <1>29 DEF Close
<1>30. ASSUME StopLoop PROVE LabelInv'
  BY <1>30 DEF StopLoop, Cancelled
<1>31. ASSUME Exit \/ ForeignBridge PROVE LabelInv'
  BY <1>31 DEF Exit, ForeignBridge
<1>32. ASSUME NEW e \in Edit, EditFile(e) PROVE LabelInv'
  BY <1>32 DEF EditFile
<1>33. CASE UNCHANGED vars
  BY <1>33 DEF vars
<1>34. QED
  BY ONLY [Next]_vars, <1>1, <1>2, <1>3, <1>4, <1>5, <1>6, <1>7, <1>8, <1>9, <1>10,
     <1>11, <1>12, <1>13, <1>14, <1>15, <1>16, <1>17, <1>18, <1>19, <1>20, <1>21, <1>22,
     <1>23, <1>24, <1>25, <1>26, <1>27, <1>28, <1>29, <1>30, <1>31, <1>32, <1>33
     DEF Next, Step

\* How a catalog gets its answer: from the files, by way of the application the
\* task loaded, the session's, or the cache.
Origin(c) ==
  /\ mutex' = c =>
       \/ mutex = c /\ seen'[c] = seen[c]
       \/ seen'[c] = Revision /\ UNCHANGED <<config, dotenv>>
  /\ task'[c] = "starting" =>
       /\ seen'[c] = seen[c]
       /\ \/ task[c] = "starting" /\ loaded'[c] = loaded[c]
          \/ mutex = c /\ loaded'[c] = Revision
  /\ task'[c] = "calling" =>
       \/ task[c] = "calling" /\ label' = label /\ seen'[c] = seen[c]
       \/ label' = seen'[c]
  /\ task'[c] = "done" \/ pc'[c] = "served" =>
       /\ seen'[c] = seen[c]
       /\ \/ (task[c] = "done" \/ pc[c] = "served") /\ answer'[c] = answer[c]
          \/ /\ mutex = c /\ (label = seen[c] \/ task[c] = "calling")
             /\ answer'[c] = loaded[Session] \/ (cache # None /\ answer'[c] = cache)

\* A step of somebody else.
Elsewhere(c) ==
  /\ pc'[c] = pc[c] /\ seen'[c] = seen[c] /\ answer'[c] = answer[c]
  /\ task'[c] = task[c] /\ loaded'[c] = loaded[c]
  /\ mutex' = c => mutex = c
  /\ task[c] = "calling" => label' = label

\* Every step gives a catalog its answer in this way.
LEMMA OriginStep ==
  ASSUME TypeOK, MutexInv, TaskInv, [Next]_vars,
         NEW c \in Request, kind[c] = "discover"
  PROVE  Origin(c)
<1> USE DashboardConfigAssumption
    DEF TypeOK, diskVars, requestVars, sessionVars, Goto, End, Actor, Session
<1>a. Elsewhere(c) => Origin(c)
  BY DEF Elsewhere, Origin
<1>b. /\ task[c] \in {"waiting", "closing", "starting", "calling", "done", "failed"} =>
           pc[c] = "asking" /\ mutex = c
      /\ pc[c] \in {"idle", "page", "prepared"} => task[c] = "none"
  BY DEF TaskInv, MutexInv, Holding, Held
<1>c. \A a \in Actor : task[a] \in {"starting", "calling"} /\ task[c] = "calling" => a = c
  BY DEF TaskInv, Holding
<1>d. LockFree => task[c] # "calling"
  BY DEF LockFree, Holding
<1>1. ASSUME NEW r \in Request, Reject(r) PROVE Origin(c)
  <2>1. CASE r # c
    <3>1. Elsewhere(c)
      BY <1>1, <2>1 DEF Elsewhere, Reject
    <3>2. QED
      BY <3>1, <1>a
  <2>2. CASE r = c
    BY <1>1, <2>2, <1>b DEF Origin, Reject
  <2>3. QED
    BY <2>1, <2>2
<1>2. ASSUME NEW r \in Request, State(r) PROVE Origin(c)
  <2>1. CASE r # c
    <3>1. Elsewhere(c)
      BY <1>2, <2>1 DEF Elsewhere, State
    <3>2. QED
      BY <3>1, <1>a
  <2>2. CASE r = c
    BY <1>2, <2>2, <1>b DEF Origin, State, Saving
  <2>3. QED
    BY <2>1, <2>2
<1>3. ASSUME NEW r \in Request, Show(r) PROVE Origin(c)
  <2>1. CASE r # c
    <3>1. Elsewhere(c)
      BY <1>3, <2>1 DEF Elsewhere, Show
    <3>2. QED
      BY <3>1, <1>a
  <2>2. CASE r = c
    BY <1>3, <2>2, <1>b DEF Origin, Show
  <2>3. QED
    BY <2>1, <2>2
<1>4. ASSUME NEW r \in Request, Configure(r) PROVE Origin(c)
  <2>1. CASE r # c
    <3>1. Elsewhere(c)
      BY <1>4, <2>1 DEF Elsewhere, Configure
    <3>2. QED
      BY <3>1, <1>a
  <2>2. CASE r = c
    BY <1>4, <2>2, <1>b DEF Origin, Configure
  <2>3. QED
    BY <2>1, <2>2
<1>5. ASSUME NEW r \in Request, Begin(r) PROVE Origin(c)
  <2>1. CASE r # c
    <3>1. Elsewhere(c)
      BY <1>5, <2>1 DEF Elsewhere, Begin
    <3>2. QED
      BY <3>1, <1>a
  <2>2. CASE r = c
    BY <1>5, <2>2, <1>b DEF Origin, Begin
  <2>3. QED
    BY <2>1, <2>2
<1>6. ASSUME NEW r \in Request, Submit(r) PROVE Origin(c)
  <2>1. CASE r # c
    <3>1. Elsewhere(c)
      BY <1>6, <2>1 DEF Elsewhere, Submit, NeedsSession
    <3>2. QED
      BY <3>1, <1>a
  <2>2. CASE r = c
    BY <1>6, <2>2, <1>b DEF Origin, Submit, NeedsSession
  <2>3. QED
    BY <2>1, <2>2
<1>7. ASSUME NEW r \in Request, Reply(r) PROVE Origin(c)
  <2>1. CASE r # c
    <3>1. Elsewhere(c)
      BY <1>7, <2>1 DEF Elsewhere, Reply
    <3>2. QED
      BY <3>1, <1>a
  <2>2. CASE r = c
    BY <1>7, <2>2, <1>b DEF Origin, Reply
  <2>3. QED
    BY <2>1, <2>2
<1>8. ASSUME NEW r \in Request, Timeout(r) PROVE Origin(c)
  <2>1. CASE r # c
    <3>1. Elsewhere(c)
      BY <1>8, <2>1 DEF Elsewhere, Timeout
    <3>2. QED
      BY <3>1, <1>a
  <2>2. CASE r = c
    BY <1>8, <2>2, <1>b DEF Origin, Timeout, Cancelled
  <2>3. QED
    BY <2>1, <2>2
<1>9. ASSUME NEW r \in Request, Prepare(r) PROVE Origin(c)
  <2>1. CASE r # c
    <3>1. Elsewhere(c)
      BY <1>9, <2>1 DEF Elsewhere, Prepare
    <3>2. QED
      BY <3>1, <1>a
  <2>2. CASE r = c
    BY <1>9, <2>2, <1>b DEF Origin, Prepare
  <2>3. QED
    BY <2>1, <2>2
<1>10. ASSUME NEW r \in Request, Build(r) PROVE Origin(c)
  <2>1. CASE r # c
    <3>1. Elsewhere(c)
      BY <1>10, <2>1 DEF Elsewhere, Build
    <3>2. QED
      BY <3>1, <1>a
  <2>2. CASE r = c
    BY <1>10, <2>2, <1>b DEF Origin, Build
  <2>3. QED
    BY <2>1, <2>2
<1>11. ASSUME NEW r \in Request, WriteConfig(r) PROVE Origin(c)
  <2>1. CASE r # c
    <3>1. Elsewhere(c)
      BY <1>11, <2>1 DEF Elsewhere, WriteConfig
    <3>2. QED
      BY <3>1, <1>a
  <2>2. CASE r = c
    BY <1>11, <2>2, <1>b DEF Origin, WriteConfig, NeedsSession
  <2>3. QED
    BY <2>1, <2>2
<1>12. ASSUME NEW r \in Request, WriteDotenv(r) PROVE Origin(c)
  <2>1. CASE r # c
    <3>1. Elsewhere(c)
      BY <1>12, <2>1 DEF Elsewhere, WriteDotenv
    <3>2. QED
      BY <3>1, <1>a
  <2>2. CASE r = c
    BY <1>12, <2>2, <1>b DEF Origin, WriteDotenv, UpdatedDotenv
  <2>3. QED
    BY <2>1, <2>2
<1>13. ASSUME NEW r \in Request, Verify(r) PROVE Origin(c)
  <2>1. CASE r # c
    <3>1. Elsewhere(c)
      BY <1>13, <2>1 DEF Elsewhere, Verify
    <3>2. QED
      BY <3>1, <1>a
  <2>2. CASE r = c
    BY <1>13, <2>2, <1>b DEF Origin, Verify, UpdatedDotenv
  <2>3. QED
    BY <2>1, <2>2
<1>14. ASSUME NEW r \in Request, Apply(r) PROVE Origin(c)
  <2>1. CASE r # c
    <3>1. Elsewhere(c)
      BY <1>14, <2>1 DEF Elsewhere, Apply
    <3>2. QED
      BY <3>1, <1>a
  <2>2. CASE r = c
    BY <1>14, <2>2, <1>b DEF Origin, Apply
  <2>3. QED
    BY <2>1, <2>2
<1>15. ASSUME NEW r \in Request, RestoreConfig(r) PROVE Origin(c)
  <2>1. CASE r # c
    <3>1. Elsewhere(c)
      BY <1>15, <2>1 DEF Elsewhere, RestoreConfig
    <3>2. QED
      BY <3>1, <1>a
  <2>2. CASE r = c
    BY <1>15, <2>2, <1>b DEF Origin, RestoreConfig
  <2>3. QED
    BY <2>1, <2>2
<1>16. ASSUME NEW r \in Request, RestoreDotenv(r) PROVE Origin(c)
  <2>1. CASE r # c
    <3>1. Elsewhere(c)
      BY <1>16, <2>1 DEF Elsewhere, RestoreDotenv
    <3>2. QED
      BY <3>1, <1>a
  <2>2. CASE r = c
    BY <1>16, <2>2, <1>b DEF Origin, RestoreDotenv
  <2>3. QED
    BY <2>1, <2>2
<1>17. ASSUME NEW r \in Request, RestoreJar(r) PROVE Origin(c)
  <2>1. CASE r # c
    <3>1. Elsewhere(c)
      BY <1>17, <2>1 DEF Elsewhere, RestoreJar
    <3>2. QED
      BY <3>1, <1>a
  <2>2. CASE r = c
    BY <1>17, <2>2, <1>b DEF Origin, RestoreJar
  <2>3. QED
    BY <2>1, <2>2
<1>18. ASSUME NEW r \in Request, Inspect(r) PROVE Origin(c)
  <2>1. CASE r # c
    <3>1. Elsewhere(c)
      BY <1>18, <2>1 DEF Elsewhere, Inspect
    <3>2. QED
      BY <3>1, <1>a
  <2>2. CASE r = c
    BY <1>18, <2>2, <1>b DEF Origin, Inspect
  <2>3. QED
    BY <2>1, <2>2
<1>19. ASSUME NEW r \in Request, Report(r) PROVE Origin(c)
  <2>1. CASE r # c
    <3>1. Elsewhere(c)
      BY <1>19, <2>1 DEF Elsewhere, Report
    <3>2. QED
      BY <3>1, <1>a
  <2>2. CASE r = c
    BY <1>19, <2>2, <1>b DEF Origin, Report
  <2>3. QED
    BY <2>1, <2>2
<1>20. ASSUME NEW r \in Request, Enter(r) PROVE Origin(c)
  <2>1. CASE r # c
    <3>1. Elsewhere(c)
      BY <1>20, <2>1, <1>d DEF Elsewhere, Enter, Current, DropApplication,
         LoadApplication, Return
    <3>2. QED
      BY <3>1, <1>a
  <2>2. CASE r = c
    BY <1>20, <2>2, <1>b DEF Origin, Enter, Current, DropApplication, LoadApplication,
       Return, LockFree
  <2>3. QED
    BY <2>1, <2>2
<1>21. ASSUME NEW r \in Request, Reload(r) PROVE Origin(c)
  <2>1. CASE r # c
    <3>1. Elsewhere(c)
      BY <1>21, <2>1 DEF Elsewhere, Reload, LoadApplication
    <3>2. QED
      BY <3>1, <1>a
  <2>2. CASE r = c
    BY <1>21, <2>2, <1>b DEF Origin, Reload, LoadApplication
  <2>3. QED
    BY <2>1, <2>2
<1>22. ASSUME NEW r \in Request, Spawn(r) PROVE Origin(c)
  <2>1. CASE r # c
    <3>1. Elsewhere(c)
      BY <1>22, <2>1 DEF Elsewhere, Spawn
    <3>2. QED
      BY <3>1, <1>a
  <2>2. CASE r = c
    BY <1>22, <2>2, <1>b DEF Origin, Spawn
  <2>3. QED
    BY <2>1, <2>2
<1>23. ASSUME NEW r \in Request, Started(r) PROVE Origin(c)
  <2>1. CASE r # c
    <3>1. Elsewhere(c)
      BY <1>23, <2>1, <1>c DEF Elsewhere, Started
    <3>2. QED
      BY <3>1, <1>a
  <2>2. CASE r = c
    BY <1>23, <2>2, <1>b DEF Origin, Started
  <2>3. QED
    BY <2>1, <2>2
<1>24. ASSUME NEW r \in Request, FailStart(r) PROVE Origin(c)
  <2>1. CASE r # c
    <3>1. Elsewhere(c)
      BY <1>24, <2>1 DEF Elsewhere, FailStart
    <3>2. QED
      BY <3>1, <1>a
  <2>2. CASE r = c
    BY <1>24, <2>2, <1>b DEF Origin, FailStart
  <2>3. QED
    BY <2>1, <2>2
<1>25. ASSUME NEW r \in Request, Call(r) PROVE Origin(c)
  <2>1. CASE r # c
    <3>1. Elsewhere(c)
      BY <1>25, <2>1 DEF Elsewhere, Call, Return
    <3>2. QED
      BY <3>1, <1>a
  <2>2. CASE r = c
    BY <1>25, <2>2, <1>b DEF Origin, Call, Return
  <2>3. QED
    BY <2>1, <2>2
<1>26. ASSUME NEW a \in Actor, EnterClose(a) PROVE Origin(c)
  <2>1. CASE a # c
    <3>1. Elsewhere(c)
      BY <1>26, <2>1, <1>d DEF Elsewhere, EnterClose, DropApplication, Closing
    <3>2. QED
      BY <3>1, <1>a
  <2>2. CASE a = c
    BY <1>26, <2>2, <1>b DEF Origin, EnterClose, Closing, DropApplication, LockFree
  <2>3. QED
    BY <2>1, <2>2
<1>27. ASSUME NEW a \in Actor, FinishClose(a) PROVE Origin(c)
  <2>1. CASE a # c
    <3>1. Elsewhere(c)
      BY <1>27, <2>1 DEF Elsewhere, FinishClose, Closing
    <3>2. QED
      BY <3>1, <1>a
  <2>2. CASE a = c
    BY <1>27, <2>2, <1>b DEF Origin, FinishClose, Closing
  <2>3. QED
    BY <2>1, <2>2
<1>28. ASSUME NEW a \in Actor, Unwind(a) PROVE Origin(c)
  <2>1. CASE a # c
    <3>1. Elsewhere(c)
      BY <1>28, <2>1 DEF Elsewhere, Unwind
    <3>2. QED
      BY <3>1, <1>a
  <2>2. CASE a = c
    BY <1>28, <2>2, <1>b DEF Origin, Unwind
  <2>3. QED
    BY <2>1, <2>2
<1>29. ASSUME Close PROVE Origin(c)
  <2>1. Elsewhere(c)
    BY <1>29 DEF Elsewhere, Close
  <2>2. QED
    BY <2>1, <1>a
<1>30. ASSUME StopLoop PROVE Origin(c)
  <2>1. task'[c] = Cancelled(task[c]) /\ UNCHANGED <<pc, seen, answer, mutex>>
    BY <1>30 DEF StopLoop
  <2>2. task'[c] \notin {"starting", "calling"} /\ (task'[c] = "done" => task[c] = "done")
    BY <2>1 DEF Cancelled, Holding
  <2>3. QED
    BY <2>1, <2>2 DEF Origin
<1>31. ASSUME Exit \/ ForeignBridge PROVE Origin(c)
  <2>1. Elsewhere(c)
    BY <1>31 DEF Elsewhere, Exit, ForeignBridge
  <2>2. QED
    BY <2>1, <1>a
<1>32. ASSUME NEW e \in Edit, EditFile(e) PROVE Origin(c)
  <2>1. Elsewhere(c)
    BY <1>32 DEF Elsewhere, EditFile
  <2>2. QED
    BY <2>1, <1>a
<1>33. CASE UNCHANGED vars
  <2>1. Elsewhere(c)
    BY <1>33 DEF Elsewhere, vars
  <2>2. QED
    BY <2>1, <1>a
<1>34. QED
  BY ONLY [Next]_vars, <1>1, <1>2, <1>3, <1>4, <1>5, <1>6, <1>7, <1>8, <1>9, <1>10,
     <1>11, <1>12, <1>13, <1>14, <1>15, <1>16, <1>17, <1>18, <1>19, <1>20, <1>21, <1>22,
     <1>23, <1>24, <1>25, <1>26, <1>27, <1>28, <1>29, <1>30, <1>31, <1>32, <1>33
     DEF Next, Step

\* Edits are counted against the request that holds the mutex, for good.
LEMMA Disturbance ==
  ASSUME [Next]_vars
  PROVE  kind' = kind /\ disturbed \subseteq disturbed'
BY DEF Next, Step, vars, diskVars, requestVars, sessionVars, Reject, State, Show,
   Configure,
       Begin, Submit, Reply, Timeout, Prepare, Build, WriteConfig, WriteDotenv, Verify,
          Apply,
       RestoreConfig, RestoreDotenv, RestoreJar, Inspect, Report, Enter, Reload, Spawn,
       Started, FailStart, Call, EnterClose, FinishClose, Unwind, Close, StopLoop, Exit,
       ForeignBridge, EditFile

\* What is answered is of the files that the request found, or they have been
\* edited during it.
LEMMA CatalogStep ==
  ASSUME IInv, OriginInv, [Next]_vars,
         NEW c \in Request, kind[c] = "discover"
  PROVE  CatalogOf(c)'
<1>1. TypeOK /\ MutexInv /\ TaskInv /\ UsedInv /\ LabelInv /\ CatalogOf(c)
  BY DEF IInv, OriginInv, CatalogInv
<1> DEFINE s == seen[c]
<1>2. s \in Used \X UsedLater /\ (Gone(s) => s # Revision)
  BY <1>1 DEF UsedInv, Gone, Revision
<1>3. disturbed \subseteq disturbed'
  BY Disturbance
<1>4. Origin(c)
  BY <1>1, OriginStep
<1>5. ASSUME NEW v, v \in Used \X UsedLater, Gone(v)
      PROVE  Gone(v)'
  BY <1>1, <1>5, GoneStep
<1>6. ASSUME mutex = c, NEW v, v = Revision
      PROVE  Revision' = v \/ (c \in disturbed' /\ Gone(v)')
  BY <1>1, <1>6, RevisionMoves
<1>7. ASSUME mutex' = c
      PROVE  (seen[c] = Revision \/ (c \in disturbed /\ Gone(seen[c])))'
  <2>1. CASE mutex = c /\ seen'[c] = s
    <3>1. CASE s = Revision
      <4>1. PICK v : v = s
        OBVIOUS
      <4>2. Revision' = v \/ (c \in disturbed' /\ Gone(v)')
        BY <4>1, <3>1, <2>1, <1>6
      <4> HIDE DEF s
      <4>3. QED
        BY <4>1, <4>2, <2>1 DEF Gone
    <3>2. CASE c \in disturbed /\ Gone(s)
      <4>1. PICK v : v = s
        OBVIOUS
      <4>2. Gone(v)'
        BY <4>1, <3>2, <1>2, <1>5
      <4>3. QED
        BY <4>1, <4>2, <3>2, <2>1, <1>3 DEF Gone
    <3>3. QED
      BY <3>1, <3>2, <2>1, <1>1 DEF CatalogOf
  <2>2. CASE seen'[c] = Revision /\ UNCHANGED <<config, dotenv>>
    BY <2>2 DEF Revision
  <2>3. QED
    BY <2>1, <2>2, <1>4, <1>7 DEF Origin
<1>8. ASSUME task'[c] = "starting"
      PROVE  (loaded[c] = seen[c] \/ Gone(seen[c]))'
  <2>1. seen'[c] = s /\ (loaded'[c] = s \/ Gone(s))
    <3>1. CASE task[c] = "starting" /\ loaded'[c] = loaded[c]
      BY <3>1, <1>1, <1>4, <1>8 DEF Origin, CatalogOf
    <3>2. CASE mutex = c /\ loaded'[c] = Revision
      BY <3>2, <1>1, <1>4, <1>8 DEF Origin, CatalogOf
    <3>3. QED
      BY <3>1, <3>2, <1>4, <1>8 DEF Origin
  <2>2. PICK v : v = s
    OBVIOUS
  <2>3. Gone(s) => Gone(v)'
    BY <2>2, <1>2, <1>5
  <2>4. QED
    BY <2>1, <2>2, <2>3 DEF Gone
<1>9. (task[c] = "calling" => label = seen[c])'
  BY <1>1, <1>4 DEF Origin, CatalogOf
<1>10. ASSUME task'[c] = "done" \/ pc'[c] = "served", c \notin disturbed'
       PROVE  answer'[c] = seen'[c]
  <2>1. seen'[c] = s /\ c \notin disturbed
    BY <1>10, <1>3, <1>4 DEF Origin
  <2>2. CASE (task[c] = "done" \/ pc[c] = "served") /\ answer'[c] = answer[c]
    BY <2>1, <2>2, <1>1 DEF CatalogOf
  <2>3. CASE /\ mutex = c /\ (label = s \/ task[c] = "calling")
             /\ answer'[c] = loaded[Session] \/ (cache # None /\ answer'[c] = cache)
    <3>1. label = s /\ s = Revision /\ ~ Gone(s)
      BY <2>1, <2>3, <1>1, <1>2 DEF CatalogOf
    <3>2. label # None
      BY <3>1, <1>1, DashboardConfigAssumption DEF TypeOK, Revisions, Author
    <3>3. answer'[c] = loaded[Session]
      BY <2>3, <3>2, <1>1 DEF LabelInv
    <3>4. loaded[Session] = label
      BY <3>1, <3>2, <1>1 DEF LabelInv
    <3>5. QED
      BY <2>1, <3>1, <3>3, <3>4
  <2>4. QED
    BY <2>2, <2>3, <1>4, <1>10 DEF Origin
<1>11. QED
  BY <1>7, <1>8, <1>9, <1>10 DEF CatalogOf

\* Only catalogs are served.
LEMMA ServedStep ==
  ASSUME TypeOK, [Next]_vars, NEW r \in Request, pc'[r] = "served"
  PROVE  pc[r] = "served" \/ kind[r] = "discover"
<1>1. ASSUME NEW q \in Request, Reply(q)
      PROVE  pc[r] = "served" \/ kind[r] = "discover"
  BY <1>1 DEF Reply, End, Goto, TypeOK
<1>2. ASSUME NEW q \in Request,
             NEW x \in {"idle", "page", "applying"} \cup Held \cup (Ended \ {"served"}),
             Goto(q, x) \/ End(q, x)
      PROVE  pc[r] = "served"
  BY <1>2 DEF Goto, End, TypeOK, Held, Ended, Refusal, Writing, Undoing
<1>3. ASSUME NEW q \in Request,
             \/ Reject(q) \/ State(q) \/ Show(q) \/ Configure(q) \/ Begin(q)
             \/ Submit(q) \/ Timeout(q) \/ Prepare(q) \/ Build(q) \/ WriteConfig(q)
             \/ WriteDotenv(q) \/ Verify(q) \/ Apply(q) \/ RestoreConfig(q)
             \/ RestoreDotenv(q) \/ RestoreJar(q) \/ Inspect(q) \/ Report(q)
      PROVE  pc[r] = "served"
  BY <1>2, <1>3 DEF Reject, State, Show, Configure, Begin, Submit, Timeout, Prepare,
     Build, WriteConfig, WriteDotenv, Verify, Apply, RestoreConfig, RestoreDotenv,
     RestoreJar, Inspect, Report, NeedsSession,
     Held, Ended, Refusal, Writing, Undoing
<1>4. CASE SessionStep \/ UNCHANGED vars
  BY <1>4, SessionLeavesFiles
<1>5. CASE \E e \in Edit : EditFile(e)
  BY <1>5 DEF EditFile, requestVars
<1>6. QED
  BY ONLY [Next]_vars, <1>1, <1>3, <1>4, <1>5 DEF Next, Step, SessionStep

\* Where answers come from stays so.
LEMMA OriginInductive ==
  ASSUME IInv, OriginInv, [Next]_vars
  PROVE  OriginInv'
<1>1. UsedInv'
  BY UsedStep DEF IInv, OriginInv
<1>2. LabelInv'
  BY LabelStep
<1>3. CatalogInv'
  <2>1. ASSUME NEW c \in Request, kind'[c] = "discover" PROVE CatalogOf(c)'
    BY <2>1, CatalogStep, Disturbance
  <2>2. ASSUME NEW r \in Request, pc'[r] = "served" PROVE kind'[r] = "discover"
    BY <2>2, ServedStep, Disturbance DEF IInv, OriginInv, CatalogInv
  <2>3. QED
    BY <2>1, <2>2 DEF CatalogInv
<1>4. QED
  BY <1>1, <1>2, <1>3 DEF OriginInv

\* Metadata is answered from an application of the files of that moment, for any
\* number of requests and edits, whatever the tasks that were given up left in
\* the session.
THEOREM AnswersAreCurrent == Spec => []AnswerIsCurrent
<1>1. Init => OriginInv
  <2> SUFFICES ASSUME Init PROVE OriginInv
    OBVIOUS
  <2> USE DashboardConfigAssumption DEF Init
  <2>1. UsedInv
    BY DEF UsedInv, Used, UsedLater
  <2>2. LabelInv
    BY DEF LabelInv
  <2>3. CatalogInv
    <3>1. ASSUME NEW r \in Request
          PROVE  mutex # r /\ task[r] = "none" /\ pc[r] = "idle"
      BY DEF Actor
    <3>2. QED
      BY <3>1 DEF CatalogInv, CatalogOf
  <2>4. QED
    BY <2>1, <2>2, <2>3 DEF OriginInv
<1>2. IInv /\ OriginInv /\ [Next]_vars => OriginInv'
  BY OriginInductive
<1>3. OriginInv => AnswerIsCurrent
  BY DEF OriginInv, CatalogInv, CatalogOf, AnswerIsCurrent
<1>4. Spec => []IInv
  BY DashboardInvariance
<1>5. QED
  BY <1>1, <1>2, <1>3, <1>4, PTL DEF Spec
=============================================================================
