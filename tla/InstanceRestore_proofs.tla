---------------------- MODULE InstanceRestore_proofs ----------------------
(***************************************************************************)
(* Restoring an instance is safe for every set of units and archives,      *)
(* whatever each archive carries and however often the process ends or a   *)
(* move fails.                                                             *)
(***************************************************************************)
EXTENDS InstanceRestore, TLAPS

USE UnitsAssumption, ContentsAssumption, CarriesAssumption, BoundsAssumption

-----------------------------------------------------------------------------
(* Types *)

LEMMA TypeInit == Init => TypeOK
<1> SUFFICES ASSUME Init PROVE TypeOK
  OBVIOUS
<1>1. (Units \cup {"wal"}) \X {Own} \subseteq Files
  BY DEF Files, Contents
<1>2. hist \in Histories
  BY <1>1 DEF Init, Histories
<1>3. used \in [crashes : 0 .. MaxCrashes, faults : 0 .. MaxFaults]
  BY DEF Init
<1> QED BY <1>2, <1>3 DEF Init, TypeOK, NoStaging, Idle, Contents


\* One staging at a time, and only while the engine runs; it records nothing
\* before it is verified.
StagerInv ==
  /\ boot # "up" => stager = Idle /\ ~discard
  /\ stager.pc # "idle" => stager.archive # None
  /\ stager.pc \in {"extracting", "verifying", "recording", "refused"} => pending = None

\* The boot hook works on a record until it has reported; the unit in hand has
\* its staged copy, and no unit is missing once the check has passed.
BootInv ==
  /\ boot \in {"checking", "moving", "reported"} => pending # None
  /\ boot = "finished" => pending = None
  /\ unit # None => boot = "moving" /\ staging[unit] # None
  /\ boot = "moving" => Missing(pending) = {}

LEMMA ControlInit == Init => StagerInv /\ BootInv
  BY DEF Init, StagerInv, BootInv, Idle

LEMMA StagerStep == TypeOK /\ StagerInv /\ [Next]_vars => StagerInv'
<1> SUFFICES ASSUME TypeOK, StagerInv, [Next]_vars PROVE StagerInv'
  OBVIOUS
<1> USE DEF TypeOK, StagerInv, Idle
<1>1. ASSUME NEW a \in Archives, Upload(a) PROVE  StagerInv'
  BY <1>1 DEF Upload, Up, disk, moving, said, api
<1>2. ASSUME NEW u \in Units, ClearStaged(u) PROVE  StagerInv'
  BY <1>2 DEF ClearStaged, Up, disk, moving, said, api
<1>3. CASE ClearRecord
  BY <1>3 DEF ClearRecord, Stages, Up, disk, moving, said, api
<1>4. ASSUME NEW u \in Units, Extract(u) PROVE  StagerInv'
  BY <1>4 DEF Extract, Up, disk, moving, said, api
<1>5. CASE ExtractEnds
  BY <1>5 DEF ExtractEnds, Stages, Up, disk, moving, said, api
<1>6. CASE Verify
  BY <1>6 DEF Verify, Stages, Verified, Up, disk, moving, said, api
<1>7. CASE Record
  BY <1>7 DEF Record, Up, disk, moving, said, api
<1>8. CASE Refuse
  BY <1>8 DEF Refuse, Up, disk, moving, said, api
<1>9. CASE Discard
  BY <1>9 DEF Discard, Up, disk, moving, said, api
<1>10. CASE DiscardStaged
  BY <1>10 DEF DiscardStaged, Up, disk, moving, said, api
<1>11. CASE Apply
  BY <1>11 DEF Apply, Up, disk, moving, said, api
<1>12. CASE Start
  BY <1>12 DEF Start, Boots, disk, moving, said, api
<1>13. CASE Check
  BY <1>13 DEF Check, Boots, disk, moving, said, api
<1>14. CASE PickUnit
  BY <1>14 DEF PickUnit, Waiting, disk, moving, said, api
<1>15. CASE DisplaceUnit
  BY <1>15 DEF DisplaceUnit, Quiet, disk, moving, said, api
<1>16. CASE DisplaceWal
  BY <1>16 DEF DisplaceWal, Quiet, HasWal, disk, moving, said, api
<1>17. CASE MoveIn
  BY <1>17 DEF MoveIn, HasWal, Boots, disk, moving, said, api
<1>18. CASE Report
  BY <1>18 DEF Report, Waiting, Boots, disk, moving, said, api
<1>19. CASE Finish
  BY <1>19 DEF Finish, Boots, disk, moving, said, api
<1>20. CASE FinishStaged
  BY <1>20 DEF FinishStaged, Boots, disk, moving, said, api
<1>21. CASE Fail
  BY <1>21 DEF Fail, Boots, disk, moving, said, api
<1>22. CASE FailFinish
  BY <1>22 DEF FailFinish, Boots, disk, moving, said, api
<1>23. CASE Open
  BY <1>23 DEF Open, Boots, disk, moving, said, api
<1>24. CASE Fault
  BY <1>24 DEF Fault, Boots, Waiting, disk, moving, said, api
<1>25. CASE Restart
  BY <1>25 DEF Restart, Ends, Boots, Up, disk, moving, said, api
<1>26. CASE Crash
  BY <1>26 DEF Crash, Ends, Boots, disk, moving, said, api
<1>28. CASE ReportFails
  BY <1>28 DEF ReportFails, Waiting, Boots, moving, said, api, disk
<1>29. CASE FailUnsaid
  BY <1>29 DEF FailUnsaid, Boots, moving, said, api, disk
<1>27. CASE UNCHANGED vars
  BY <1>27 DEF vars
<1> QED BY <1>1, <1>2, <1>3, <1>4, <1>5, <1>6, <1>7, <1>8, <1>9, <1>10, <1>11, <1>12, <1>13, <1>14, <1>15, <1>16, <1>17, <1>18, <1>19, <1>20, <1>21, <1>22, <1>23, <1>24, <1>25, <1>26, <1>27, <1>28, <1>29 DEF Next, Staging, Booting

LEMMA BootStep == TypeOK /\ StagerInv /\ BootInv /\ [Next]_vars => BootInv'
<1> SUFFICES ASSUME TypeOK, StagerInv, BootInv, [Next]_vars PROVE BootInv'
  OBVIOUS
<1> USE DEF TypeOK, BootInv, Missing
<1>1. ASSUME NEW a \in Archives, Upload(a) PROVE  BootInv'
  BY <1>1 DEF Upload, StagerInv, Idle, Up, disk, moving, said, api
<1>2. ASSUME NEW u \in Units, ClearStaged(u) PROVE  BootInv'
  BY <1>2 DEF ClearStaged, StagerInv, Idle, Up, disk, moving, said, api
<1>3. CASE ClearRecord
  BY <1>3 DEF ClearRecord, Stages, StagerInv, Idle, Up, disk, moving, said, api
<1>4. ASSUME NEW u \in Units, Extract(u) PROVE  BootInv'
  BY <1>4 DEF Extract, StagerInv, Idle, Up, disk, moving, said, api
<1>5. CASE ExtractEnds
  BY <1>5 DEF ExtractEnds, Stages, StagerInv, Idle, Up, disk, moving, said, api
<1>6. CASE Verify
  BY <1>6 DEF Verify, Stages, Verified, StagerInv, Idle, Up, disk, moving, said, api
<1>7. CASE Record
  BY <1>7 DEF Record, StagerInv, Idle, Up, disk, moving, said, api
<1>8. CASE Refuse
  BY <1>8 DEF Refuse, StagerInv, Idle, Up, disk, moving, said, api
<1>9. CASE Discard
  BY <1>9 DEF Discard, StagerInv, Idle, Up, disk, moving, said, api
<1>10. CASE DiscardStaged
  BY <1>10 DEF DiscardStaged, StagerInv, Idle, Up, disk, moving, said, api
<1>11. CASE Apply
  BY <1>11 DEF Apply, StagerInv, Idle, Up, disk, moving, said, api
<1>12. CASE Start
  BY <1>12 DEF Start, Boots, StagerInv, Idle, disk, moving, said, api
<1>13. CASE Check
  BY <1>13 DEF Check, Boots, StagerInv, Idle, disk, moving, said, api
<1>14. CASE PickUnit
  BY <1>14 DEF PickUnit, Waiting, StagerInv, Idle, disk, moving, said, api
<1>15. CASE DisplaceUnit
  BY <1>15 DEF DisplaceUnit, Quiet, StagerInv, Idle, disk, moving, said, api
<1>16. CASE DisplaceWal
  BY <1>16 DEF DisplaceWal, Quiet, HasWal, StagerInv, Idle, disk, moving, said, api
<1>17. CASE MoveIn
  BY <1>17 DEF MoveIn, HasWal, Boots, StagerInv, Idle, disk, moving, said, api
<1>18. CASE Report
  BY <1>18 DEF Report, Waiting, Boots, StagerInv, Idle, disk, moving, said, api
<1>19. CASE Finish
  BY <1>19 DEF Finish, Boots, StagerInv, Idle, disk, moving, said, api
<1>20. CASE FinishStaged
  BY <1>20 DEF FinishStaged, Boots, StagerInv, Idle, disk, moving, said, api
<1>21. CASE Fail
  BY <1>21 DEF Fail, Boots, StagerInv, Idle, disk, moving, said, api
<1>22. CASE FailFinish
  BY <1>22 DEF FailFinish, Boots, StagerInv, Idle, disk, moving, said, api
<1>23. CASE Open
  BY <1>23 DEF Open, Boots, StagerInv, Idle, disk, moving, said, api
<1>24. CASE Fault
  BY <1>24 DEF Fault, Boots, Waiting, StagerInv, Idle, disk, moving, said, api
<1>25. CASE Restart
  BY <1>25 DEF Restart, Ends, Boots, StagerInv, Idle, Up, disk, moving, said, api
<1>26. CASE Crash
  BY <1>26 DEF Crash, Ends, Boots, StagerInv, Idle, disk, moving, said, api
<1>28. CASE ReportFails
  BY <1>28 DEF ReportFails, Waiting, Boots, StagerInv, Idle, moving, said, api, disk
<1>29. CASE FailUnsaid
  BY <1>29 DEF FailUnsaid, Boots, StagerInv, Idle, moving, said, api, disk
<1>27. CASE UNCHANGED vars
  BY <1>27 DEF vars, StagerInv, Idle
<1> QED BY <1>1, <1>2, <1>3, <1>4, <1>5, <1>6, <1>7, <1>8, <1>9, <1>10, <1>11, <1>12, <1>13, <1>14, <1>15, <1>16, <1>17, <1>18, <1>19, <1>20, <1>21, <1>22, <1>23, <1>24, <1>25, <1>26, <1>27, <1>28, <1>29 DEF Next, Staging, Booting

LEMMA TypeStep == TypeOK /\ BootInv /\ [Next]_vars => TypeOK'
<1> SUFFICES ASSUME TypeOK, BootInv, [Next]_vars PROVE TypeOK'
  OBVIOUS
<1> USE DEF TypeOK, Contents, Files, Histories, NoStaging, Idle
<1>1. ASSUME NEW a \in Archives, Upload(a) PROVE  TypeOK'
  BY <1>1 DEF Upload, Up, disk, moving, said, api
<1>2. ASSUME NEW u \in Units, ClearStaged(u) PROVE  TypeOK'
  BY <1>2 DEF ClearStaged, Up, disk, moving, said, api
<1>3. CASE ClearRecord
  BY <1>3 DEF ClearRecord, Stages, Up, disk, moving, said, api
<1>4. ASSUME NEW u \in Units, Extract(u) PROVE  TypeOK'
  BY <1>4 DEF Extract, Up, disk, moving, said, api
<1>5. CASE ExtractEnds
  BY <1>5 DEF ExtractEnds, Stages, Up, disk, moving, said, api
<1>6. CASE Verify
  BY <1>6 DEF Verify, Stages, Verified, Up, disk, moving, said, api
<1>7. CASE Record
  BY <1>7 DEF Record, Up, disk, moving, said, api
<1>8. CASE Refuse
  BY <1>8 DEF Refuse, Up, disk, moving, said, api
<1>9. CASE Discard
  BY <1>9 DEF Discard, Up, disk, moving, said, api
<1>10. CASE DiscardStaged
  <2>1. (hist.torn \/ pending # None) \in BOOLEAN
    OBVIOUS
  <2>2. hist' \in Histories
    BY <1>10, <2>1 DEF DiscardStaged
  <2>3. staging' \in [Units -> Archives \cup {None}]
    BY <1>10 DEF DiscardStaged
  <2>4. discard' \in BOOLEAN
    BY <1>10 DEF DiscardStaged
  <2>5. UNCHANGED <<place, wal, aside, pending, report, failed, boot, unit, stager, leaving, used>>
    BY <1>10 DEF DiscardStaged, moving, said
  <2> HIDE DEF Contents, Files, Histories, NoStaging, Idle
  <2>6. /\ place' \in [Units -> Contents \cup {None}] /\ wal' \in Contents \cup {None}
        /\ aside' \subseteq Files /\ stager' = stager /\ used' = used /\ boot' = boot
    BY <2>5
  <2>7. /\ pending' \in Archives \cup {None} /\ report' \in Archives \cup {None}
        /\ failed' \in BOOLEAN /\ unit' \in Units \cup {None} /\ leaving' \in BOOLEAN
    BY <2>5
  <2> QED BY <2>2, <2>3, <2>4, <2>6, <2>7
<1>11. CASE Apply
  BY <1>11 DEF Apply, Up, disk, moving, said, api
<1>12. CASE Start
  BY <1>12 DEF Start, Boots, disk, moving, said, api
<1>13. CASE Check
  BY <1>13 DEF Check, Boots, disk, moving, said, api
<1>14. CASE PickUnit
  BY <1>14 DEF PickUnit, Waiting, BootInv, disk, moving, said, api
<1>15. CASE DisplaceUnit
  BY <1>15 DEF DisplaceUnit, Quiet, disk, moving, said, api
<1>16. CASE DisplaceWal
  BY <1>16 DEF DisplaceWal, Quiet, HasWal, disk, moving, said, api
<1>17. CASE MoveIn
  BY <1>17 DEF MoveIn, HasWal, Boots, disk, moving, said, api
<1>18. CASE Report
  BY <1>18 DEF Report, Waiting, Boots, disk, moving, said, api
<1>19. CASE Finish
  BY <1>19 DEF Finish, Boots, disk, moving, said, api
<1>20. CASE FinishStaged
  BY <1>20 DEF FinishStaged, Boots, disk, moving, said, api
<1>21. CASE Fail
  BY <1>21 DEF Fail, Boots, disk, moving, said, api
<1>22. CASE FailFinish
  BY <1>22 DEF FailFinish, Boots, disk, moving, said, api
<1>23. CASE Open
  BY <1>23 DEF Open, Boots, disk, moving, said, api
<1>24. CASE Fault
  <2>1. boot' = "failing" /\ unit' = None /\ UNCHANGED <<disk, api>>
    BY <1>24 DEF Fault, Boots
  <2>2. used.faults \in 0 .. MaxFaults /\ used.faults < MaxFaults
        /\ used' = [used EXCEPT !.faults = @ + 1]
    BY <1>24 DEF Fault
  <2>3. used' \in [crashes : 0 .. MaxCrashes, faults : 0 .. MaxFaults]
    BY <2>2
  <2>4. hist' \in Histories
    <3> DEFINE left == {c \in {wal} : c # None /\ place[Ledger] = None}
    <3>1. hist' = [hist EXCEPT !.botched = @ \cup left]
      BY <1>24 DEF Fault
    <3>2. left \subseteq Contents
      OBVIOUS
    <3> QED BY <3>1, <3>2
  <2> QED BY <2>1, <2>3, <2>4 DEF disk, api
<1>25. CASE Restart
  BY <1>25 DEF Restart, Ends, Boots, Up, disk, moving, said, api
<1>26. CASE Crash
  <2>1. /\ boot' = "down" /\ unit' = None /\ stager' = Idle /\ discard' = FALSE /\ leaving' = FALSE
        /\ UNCHANGED disk
    BY <1>26 DEF Crash, Ends, Boots
  <2>2. used.crashes \in 0 .. MaxCrashes /\ used.crashes < MaxCrashes
        /\ used' = [used EXCEPT !.crashes = @ + 1]
    BY <1>26 DEF Crash
  <2>3. used' \in [crashes : 0 .. MaxCrashes, faults : 0 .. MaxFaults]
    BY <2>2
  <2>4. hist' \in Histories
    <3>1. hist' = [hist EXCEPT !.torn = @ \/ (stager.pc = "clearing" /\ pending # None /\ ~Staged(pending))]
      BY <1>26 DEF Crash, Ends
    <3>2. (hist.torn \/ (stager.pc = "clearing" /\ pending # None /\ ~Staged(pending))) \in BOOLEAN
      OBVIOUS
    <3> QED BY <3>1, <3>2
  <2> QED BY <2>1, <2>3, <2>4 DEF disk
<1>28. CASE ReportFails
  BY <1>28 DEF ReportFails, Waiting, Boots, moving, said, api, disk
<1>29. CASE FailUnsaid
  <2>1. boot' = "failed" /\ UNCHANGED <<disk, unit, api>> /\ hist' = [hist EXCEPT !.unsaid = TRUE]
    BY <1>29 DEF FailUnsaid, Boots
  <2>2. used.faults \in 0 .. MaxFaults /\ used.faults < MaxFaults
        /\ used' = [used EXCEPT !.faults = @ + 1]
    BY <1>29 DEF FailUnsaid
  <2>3. used' \in [crashes : 0 .. MaxCrashes, faults : 0 .. MaxFaults]
    BY <2>2
  <2>4. hist' \in Histories
    BY <2>1
  <2> QED BY <2>1, <2>3, <2>4 DEF disk, api
<1>27. CASE UNCHANGED vars
  BY <1>27 DEF vars
<1> QED BY <1>1, <1>2, <1>3, <1>4, <1>5, <1>6, <1>7, <1>8, <1>9, <1>10, <1>11, <1>12, <1>13, <1>14, <1>15, <1>16, <1>17, <1>18, <1>19, <1>20, <1>21, <1>22, <1>23, <1>24, <1>25, <1>26, <1>27, <1>28, <1>29 DEF Next, Staging, Booting

LEMMA ControlStep == Spec => [](TypeOK /\ StagerInv /\ BootInv)
  BY TypeInit, TypeStep, ControlInit, StagerStep, BootStep, PTL DEF Spec

\* The files, copies and records keep their types (helpers/migration.rs).
THEOREM TypeCorrect == Spec => []TypeOK
  BY ControlStep, PTL

-----------------------------------------------------------------------------
(* The ledger and its -wal *)

\* The restore was cut short between the two moves of the ledger: the next boot
\* finds the staged copy and goes on from there.
Halfway ==
  /\ place[Ledger] = None
  /\ boot \in {"down", "checking", "moving"}
  /\ pending # None /\ staging[Ledger] # None /\ Missing(pending) = {}

WalInv ==
  \/ wal \in {None, place[Ledger]} \/ Halfway
  \/ place[Ledger] = None /\ wal \in hist.botched

LEMMA WalInit == Init => WalInv
  BY DEF Init, WalInv

LEMMA WalStep == TypeOK /\ StagerInv /\ BootInv /\ WalInv /\ [Next]_vars => WalInv'
<1> SUFFICES ASSUME TypeOK, StagerInv, BootInv, WalInv, [Next]_vars PROVE WalInv'
  OBVIOUS
<1> USE DEF TypeOK, BootInv, WalInv, Halfway, Missing, Histories
<1>1. ASSUME NEW a \in Archives, Upload(a) PROVE  WalInv'
  BY <1>1 DEF Upload, Up, disk, moving, said, api
<1>2. ASSUME NEW u \in Units, ClearStaged(u) PROVE  WalInv'
  BY <1>2 DEF ClearStaged, Up, disk, moving, said, api
<1>3. CASE ClearRecord
  BY <1>3 DEF ClearRecord, Stages, Up, disk, moving, said, api
<1>4. ASSUME NEW u \in Units, Extract(u) PROVE  WalInv'
  BY <1>4 DEF Extract, Up, disk, moving, said, api
<1>5. CASE ExtractEnds
  BY <1>5 DEF ExtractEnds, Stages, Up, disk, moving, said, api
<1>6. CASE Verify
  BY <1>6 DEF Verify, Stages, Verified, Up, disk, moving, said, api
<1>7. CASE Record
  BY <1>7 DEF Record, Up, disk, moving, said, api
<1>8. CASE Refuse
  BY <1>8 DEF Refuse, Up, disk, moving, said, api
<1>9. CASE Discard
  BY <1>9 DEF Discard, Up, disk, moving, said, api
<1>10. CASE DiscardStaged
  BY <1>10 DEF DiscardStaged, Up, disk, moving, said, api
<1>11. CASE Apply
  BY <1>11 DEF Apply, Up, disk, moving, said, api
<1>12. CASE Start
  BY <1>12 DEF Start, Boots, disk, moving, said, api
<1>13. CASE Check
  BY <1>13 DEF Check, Boots, disk, moving, said, api
<1>14. CASE PickUnit
  BY <1>14 DEF PickUnit, Waiting, disk, moving, said, api
<1>15. CASE DisplaceUnit
  BY <1>15 DEF DisplaceUnit, Quiet, disk, moving, said, api
<1>16. CASE DisplaceWal
  BY <1>16 DEF DisplaceWal, Quiet, HasWal, disk, moving, said, api
<1>17. CASE MoveIn
  BY <1>17 DEF MoveIn, HasWal, Boots, disk, moving, said, api
<1>18. CASE Report
  BY <1>18 DEF Report, Waiting, Boots, disk, moving, said, api
<1>19. CASE Finish
  BY <1>19 DEF Finish, Boots, disk, moving, said, api
<1>20. CASE FinishStaged
  BY <1>20 DEF FinishStaged, Boots, disk, moving, said, api
<1>21. CASE Fail
  BY <1>21 DEF Fail, Boots, disk, moving, said, api
<1>22. CASE FailFinish
  BY <1>22 DEF FailFinish, Boots, disk, moving, said, api
<1>23. CASE Open
  BY <1>23 DEF Open, Boots, disk, moving, said, api
<1>24. CASE Fault
  <2> DEFINE left == {c \in {wal} : c # None /\ place[Ledger] = None}
  <2>1. UNCHANGED <<place, wal>> /\ hist'.botched = hist.botched \cup left
    BY <1>24 DEF Fault, disk
  <2>2. place[Ledger] = None /\ wal # None => wal \in left
    OBVIOUS
  <2> HIDE DEF left
  <2> QED BY <2>1, <2>2
<1>25. CASE Restart
  BY <1>25 DEF Restart, Ends, Boots, Up, disk, moving, said, api
<1>26. CASE Crash
  BY <1>26 DEF Crash, Ends, Boots, disk, moving, said, api
<1>28. CASE ReportFails
  BY <1>28 DEF ReportFails, Waiting, Boots, moving, said, api, disk
<1>29. CASE FailUnsaid
  BY <1>29 DEF FailUnsaid, Boots, moving, said, api, disk
<1>27. CASE UNCHANGED vars
  BY <1>27 DEF vars
<1> QED BY <1>1, <1>2, <1>3, <1>4, <1>5, <1>6, <1>7, <1>8, <1>9, <1>10, <1>11, <1>12, <1>13, <1>14, <1>15, <1>16, <1>17, <1>18, <1>19, <1>20, <1>21, <1>22, <1>23, <1>24, <1>25, <1>26, <1>27, <1>28, <1>29 DEF Next, Staging, Booting

\* A ledger is never opened beside the -wal of another (apply_pending_restore), but
\* for an absent one whose restore failed between the two moves.
THEOREM WalIsItsOwn == Spec => []NeverMixes
<1>1. TypeOK /\ WalInv => NeverMixes
  BY DEF WalInv, NeverMixes, Halfway
<1> QED BY <1>1, ControlStep, WalInit, WalStep, PTL DEF Spec

-----------------------------------------------------------------------------
(* What the engine ran with *)

LEMMA LostStep ==
    TypeOK /\ BootInv /\ WalInv /\ NothingLost /\ [Next]_vars => NothingLost'
<1> SUFFICES ASSUME TypeOK, BootInv, WalInv, NothingLost, [Next]_vars PROVE NothingLost'
  OBVIOUS
<1> USE DEF TypeOK, NothingLost, Files, Contents, Histories
<1>1. ASSUME NEW a \in Archives, Upload(a) PROVE  NothingLost'
  BY <1>1 DEF Upload, Up, disk, moving, said, api
<1>2. ASSUME NEW u \in Units, ClearStaged(u) PROVE  NothingLost'
  BY <1>2 DEF ClearStaged, Up, disk, moving, said, api
<1>3. CASE ClearRecord
  BY <1>3 DEF ClearRecord, Stages, Up, disk, moving, said, api
<1>4. ASSUME NEW u \in Units, Extract(u) PROVE  NothingLost'
  BY <1>4 DEF Extract, Up, disk, moving, said, api
<1>5. CASE ExtractEnds
  BY <1>5 DEF ExtractEnds, Stages, Up, disk, moving, said, api
<1>6. CASE Verify
  BY <1>6 DEF Verify, Stages, Verified, Up, disk, moving, said, api
<1>7. CASE Record
  BY <1>7 DEF Record, Up, disk, moving, said, api
<1>8. CASE Refuse
  BY <1>8 DEF Refuse, Up, disk, moving, said, api
<1>9. CASE Discard
  BY <1>9 DEF Discard, Up, disk, moving, said, api
<1>10. CASE DiscardStaged
  BY <1>10 DEF DiscardStaged, Up, disk, moving, said, api
<1>11. CASE Apply
  BY <1>11 DEF Apply, Up, disk, moving, said, api
<1>12. CASE Start
  BY <1>12 DEF Start, Boots, disk, moving, said, api
<1>13. CASE Check
  BY <1>13 DEF Check, Boots, disk, moving, said, api
<1>14. CASE PickUnit
  BY <1>14 DEF PickUnit, Waiting, disk, moving, said, api
<1>15. CASE DisplaceUnit
  BY <1>15 DEF DisplaceUnit, Quiet, disk, moving, said, api
<1>16. CASE DisplaceWal
  BY <1>16 DEF DisplaceWal, Quiet, HasWal, disk, moving, said, api
<1>17. CASE MoveIn
  BY <1>17 DEF MoveIn, HasWal, Boots, disk, moving, said, api
<1>18. CASE Report
  BY <1>18 DEF Report, Waiting, Boots, disk, moving, said, api
<1>19. CASE Finish
  BY <1>19 DEF Finish, Boots, disk, moving, said, api
<1>20. CASE FinishStaged
  BY <1>20 DEF FinishStaged, Boots, disk, moving, said, api
<1>21. CASE Fail
  BY <1>21 DEF Fail, Boots, disk, moving, said, api
<1>22. CASE FailFinish
  BY <1>22 DEF FailFinish, Boots, disk, moving, said, api
<1>23. CASE Open
  <2>1. place' = [place EXCEPT ![Ledger] = IF @ = None THEN Fresh ELSE @] /\ wal' = place'[Ledger]
        /\ UNCHANGED aside
    BY <1>23 DEF Open, disk
  <2> DEFINE new == {<<u, place'[u]>> : u \in {v \in Units : place'[v] # None}} \cup {<<"wal", wal'>>}
  <2>2. hist' = [hist EXCEPT !.had = (@ \cup {<<u, place'[u]>> : u \in {v \in Units : place'[v] # None}}) \cup {<<"wal", wal'>>}]
    BY <1>23 DEF Open
  <2>3. hist'.had = hist.had \cup new /\ hist'.botched = hist.botched
    BY <2>2
  <2> SUFFICES ASSUME NEW f \in hist'.had
               PROVE  \/ f \in aside'
                      \/ f[1] = "wal" /\ f[2] \in {wal'} \cup hist'.botched
                      \/ f[1] \in Units /\ place'[f[1]] = f[2]
    BY <2>3
  <2>4. CASE f \in new
    BY <2>4
  <2>5. CASE f \in hist.had
    <3>1. f[1] \in Units \cup {"wal"} /\ f[2] # None
      BY <2>5
    <3>2. f[1] = "wal" /\ f[2] \in {wal} \cup hist.botched => f[2] \in {wal'} \cup hist'.botched
      BY <1>23, <2>1, <2>3, <3>1 DEF WalInv, Halfway, Open
    <3>3. f[1] \in Units /\ place[f[1]] = f[2] => place'[f[1]] = f[2]
      BY <2>1, <3>1
    <3> QED BY <2>1, <2>3, <2>5, <3>2, <3>3
  <2> QED BY <2>3, <2>4, <2>5
<1>24. CASE Fault
  BY <1>24 DEF Fault, Boots, Waiting, disk, moving, said, api
<1>25. CASE Restart
  BY <1>25 DEF Restart, Ends, Boots, Up, disk, moving, said, api
<1>26. CASE Crash
  BY <1>26 DEF Crash, Ends, Boots, disk, moving, said, api
<1>28. CASE ReportFails
  BY <1>28 DEF ReportFails, Waiting, Boots, moving, said, api, disk
<1>29. CASE FailUnsaid
  BY <1>29 DEF FailUnsaid, Boots, moving, said, api, disk
<1>27. CASE UNCHANGED vars
  BY <1>27 DEF vars
<1> QED BY <1>1, <1>2, <1>3, <1>4, <1>5, <1>6, <1>7, <1>8, <1>9, <1>10, <1>11, <1>12, <1>13, <1>14, <1>15, <1>16, <1>17, <1>18, <1>19, <1>20, <1>21, <1>22, <1>23, <1>24, <1>25, <1>26, <1>27, <1>28, <1>29 DEF Next, Staging, Booting

\* A file the engine ran with is in its place or in a pre-restore folder, but for
\* the -wal of a ledger whose restore failed between the two moves.
THEOREM NoFileIsLost == Spec => []NothingLost
<1>1. Init => NothingLost
  BY DEF Init, NothingLost
<1> QED BY <1>1, LostStep, ControlStep, WalInit, WalStep, PTL DEF Spec

-----------------------------------------------------------------------------
(* What a report says *)

\* A recorded unit waits in the staging or was moved in by this restore.
Kept(a, u) == staging[u] = a \/ (staging[u] = None /\ place[u] = a)
RestoreInv ==
  ~hist.torn /\ pending # None /\ stager.pc # "clearing"
    => \A u \in Carries[pending] : Kept(pending, u)

LEMMA RestoreInit == Init => RestoreInv
  BY DEF Init, RestoreInv

\* An exit of the process: a staging cut short under its record is remembered.
LEMMA ExitKeeps ==
    ASSUME TypeOK, StagerInv, RestoreInv, Ends
    PROVE  RestoreInv'
<1>1. UNCHANGED disk /\ stager' = Idle
  BY DEF Ends
<1>2. hist' = [hist EXCEPT !.torn = @ \/ (stager.pc = "clearing" /\ pending # None /\ ~Staged(pending))]
      /\ "torn" \in DOMAIN hist
  BY DEF Ends, TypeOK, Histories
<1>3. hist'.torn \/ (~hist.torn /\ ~(stager.pc = "clearing" /\ pending # None /\ ~Staged(pending)))
  BY <1>2
<1> QED BY <1>1, <1>3 DEF RestoreInv, Kept, Staged, disk

LEMMA RestoreStep == TypeOK /\ StagerInv /\ BootInv /\ RestoreInv /\ [Next]_vars => RestoreInv'
<1> SUFFICES ASSUME TypeOK, StagerInv, BootInv, RestoreInv, [Next]_vars PROVE RestoreInv'
  OBVIOUS
<1> USE DEF TypeOK, RestoreInv, Kept
<1>1. ASSUME NEW a \in Archives, Upload(a) PROVE  RestoreInv'
  BY <1>1 DEF Upload, Staged, Idle, StagerInv, BootInv, Up, disk, moving, said, api
<1>2. ASSUME NEW u \in Units, ClearStaged(u) PROVE  RestoreInv'
  BY <1>2 DEF ClearStaged, Staged, Idle, StagerInv, BootInv, Up, disk, moving, said, api
<1>3. CASE ClearRecord
  BY <1>3 DEF ClearRecord, Stages, Staged, Idle, StagerInv, BootInv, Up, disk, moving, said, api
<1>4. ASSUME NEW u \in Units, Extract(u) PROVE  RestoreInv'
  BY <1>4 DEF Extract, Staged, Idle, StagerInv, BootInv, Up, disk, moving, said, api
<1>5. CASE ExtractEnds
  BY <1>5 DEF ExtractEnds, Stages, Staged, Idle, StagerInv, BootInv, Up, disk, moving, said, api
<1>6. CASE Verify
  BY <1>6 DEF Verify, Stages, Verified, Staged, Idle, StagerInv, BootInv, Up, disk, moving, said, api
<1>7. CASE Record
  <2>1. pending' = stager.archive /\ staging' = staging
    BY <1>7 DEF Record, moving
  <2>2. hist' = [hist EXCEPT !.torn = ~Staged(stager.archive)] /\ "torn" \in DOMAIN hist
    BY <1>7 DEF Record, Histories
  <2>3. hist'.torn \/ Staged(stager.archive)
    BY <2>2
  <2> QED BY <2>1, <2>3 DEF Staged
<1>8. CASE Refuse
  BY <1>8 DEF Refuse, Staged, Idle, StagerInv, BootInv, Up, disk, moving, said, api
<1>9. CASE Discard
  BY <1>9 DEF Discard, Staged, Idle, StagerInv, BootInv, Up, disk, moving, said, api
<1>10. CASE DiscardStaged
  <2>1. pending' = pending /\ stager' = stager /\ hist'.torn = (hist.torn \/ pending # None)
    <3>1. hist' = [hist EXCEPT !.torn = @ \/ pending # None] /\ "torn" \in DOMAIN hist
      BY <1>10 DEF DiscardStaged, Histories
    <3> QED BY <1>10, <3>1 DEF DiscardStaged
  <2> QED BY <2>1
<1>11. CASE Apply
  BY <1>11 DEF Apply, Staged, Idle, StagerInv, BootInv, Up, disk, moving, said, api
<1>12. CASE Start
  BY <1>12 DEF Start, Boots, Staged, Idle, StagerInv, BootInv, disk, moving, said, api
<1>13. CASE Check
  BY <1>13 DEF Check, Boots, Staged, Idle, StagerInv, BootInv, disk, moving, said, api
<1>14. CASE PickUnit
  BY <1>14 DEF PickUnit, Waiting, Staged, Idle, StagerInv, BootInv, disk, moving, said, api
<1>15. CASE DisplaceUnit
  BY <1>15 DEF DisplaceUnit, Quiet, Staged, Idle, StagerInv, BootInv, disk, moving, said, api
<1>16. CASE DisplaceWal
  BY <1>16 DEF DisplaceWal, Quiet, HasWal, Staged, Idle, StagerInv, BootInv, disk, moving, said, api
<1>17. CASE MoveIn
  BY <1>17 DEF MoveIn, HasWal, Boots, Staged, Idle, StagerInv, BootInv, disk, moving, said, api
<1>18. CASE Report
  BY <1>18 DEF Report, Waiting, Boots, Staged, Idle, StagerInv, BootInv, disk, moving, said, api
<1>19. CASE Finish
  BY <1>19 DEF Finish, Boots, Staged, Idle, StagerInv, BootInv, disk, moving, said, api
<1>20. CASE FinishStaged
  BY <1>20 DEF FinishStaged, Boots, Staged, Idle, StagerInv, BootInv, disk, moving, said, api
<1>21. CASE Fail
  BY <1>21 DEF Fail, Boots, Staged, Idle, StagerInv, BootInv, disk, moving, said, api
<1>22. CASE FailFinish
  BY <1>22 DEF FailFinish, Boots, Staged, Idle, StagerInv, BootInv, disk, moving, said, api
<1>23. CASE Open
  BY <1>23 DEF Open, Boots, Staged, Idle, StagerInv, BootInv, disk, moving, said, api
<1>24. CASE Fault
  BY <1>24 DEF Fault, Boots, Waiting, Staged, Idle, StagerInv, BootInv, disk, moving, said, api
<1>25. CASE Restart
  BY <1>25, ExitKeeps DEF Restart
<1>26. CASE Crash
  BY <1>26, ExitKeeps DEF Crash
<1>28. CASE ReportFails
  BY <1>28 DEF ReportFails, Waiting, Boots, Staged, Idle, StagerInv, BootInv, moving, said, api, disk
<1>29. CASE FailUnsaid
  BY <1>29 DEF FailUnsaid, Boots, Staged, Idle, StagerInv, BootInv, moving, said, api, disk
<1>27. CASE UNCHANGED vars
  BY <1>27 DEF vars, Staged, Idle, StagerInv, BootInv
<1> QED BY <1>1, <1>2, <1>3, <1>4, <1>5, <1>6, <1>7, <1>8, <1>9, <1>10, <1>11, <1>12, <1>13, <1>14, <1>15, <1>16, <1>17, <1>18, <1>19, <1>20, <1>21, <1>22, <1>23, <1>24, <1>25, <1>26, <1>27, <1>28, <1>29 DEF Next, Staging, Booting

LEMMA ReportStep ==
    TypeOK /\ StagerInv /\ BootInv /\ RestoreInv /\ ReportedIsRestored /\ [Next]_vars => ReportedIsRestored'
<1> SUFFICES ASSUME TypeOK, StagerInv, BootInv, RestoreInv, ReportedIsRestored, [Next]_vars PROVE ReportedIsRestored'
  OBVIOUS
<1> USE DEF TypeOK, ReportedIsRestored
<1>1. ASSUME NEW a \in Archives, Upload(a) PROVE  ReportedIsRestored'
  BY <1>1 DEF Upload, Up, disk, moving, said, api
<1>2. ASSUME NEW u \in Units, ClearStaged(u) PROVE  ReportedIsRestored'
  BY <1>2 DEF ClearStaged, Up, disk, moving, said, api
<1>3. CASE ClearRecord
  BY <1>3 DEF ClearRecord, Stages, Up, disk, moving, said, api
<1>4. ASSUME NEW u \in Units, Extract(u) PROVE  ReportedIsRestored'
  BY <1>4 DEF Extract, Up, disk, moving, said, api
<1>5. CASE ExtractEnds
  BY <1>5 DEF ExtractEnds, Stages, Up, disk, moving, said, api
<1>6. CASE Verify
  BY <1>6 DEF Verify, Stages, Verified, Up, disk, moving, said, api
<1>7. CASE Record
  BY <1>7 DEF Record, Up, disk, moving, said, api
<1>8. CASE Refuse
  BY <1>8 DEF Refuse, Up, disk, moving, said, api
<1>9. CASE Discard
  BY <1>9 DEF Discard, Up, disk, moving, said, api
<1>10. CASE DiscardStaged
  BY <1>10 DEF DiscardStaged, Up, disk, moving, said, api
<1>11. CASE Apply
  BY <1>11 DEF Apply, Up, disk, moving, said, api
<1>12. CASE Start
  BY <1>12 DEF Start, Boots, disk, moving, said, api
<1>13. CASE Check
  BY <1>13 DEF Check, Boots, disk, moving, said, api
<1>14. CASE PickUnit
  BY <1>14 DEF PickUnit, Waiting, disk, moving, said, api
<1>15. CASE DisplaceUnit
  BY <1>15 DEF DisplaceUnit, Quiet, disk, moving, said, api
<1>16. CASE DisplaceWal
  BY <1>16 DEF DisplaceWal, Quiet, HasWal, disk, moving, said, api
<1>17. CASE MoveIn
  BY <1>17 DEF MoveIn, HasWal, Boots, disk, moving, said, api
<1>18. CASE Report
  BY <1>18 DEF Report, Waiting, Boots, RestoreInv, Kept, BootInv, StagerInv, Idle, moving, said, api
<1>19. CASE Finish
  BY <1>19 DEF Finish, Boots, disk, moving, said, api
<1>20. CASE FinishStaged
  BY <1>20 DEF FinishStaged, Boots, disk, moving, said, api
<1>21. CASE Fail
  BY <1>21 DEF Fail, Boots, disk, moving, said, api
<1>22. CASE FailFinish
  BY <1>22 DEF FailFinish, Boots, disk, moving, said, api
<1>23. CASE Open
  BY <1>23 DEF Open, Boots, disk, moving, said, api
<1>24. CASE Fault
  BY <1>24 DEF Fault, Boots, Waiting, disk, moving, said, api
<1>25. CASE Restart
  BY <1>25 DEF Restart, Ends, Boots, Up, disk, moving, said, api
<1>26. CASE Crash
  BY <1>26 DEF Crash, Ends, Boots, disk, moving, said, api
<1>28. CASE ReportFails
  BY <1>28 DEF ReportFails, Waiting, Boots, RestoreInv, Kept, BootInv, StagerInv, Idle, moving, said, api, disk
<1>29. CASE FailUnsaid
  BY <1>29 DEF FailUnsaid, Boots, RestoreInv, Kept, BootInv, StagerInv, Idle, moving, said, api, disk
<1>27. CASE UNCHANGED vars
  BY <1>27 DEF vars
<1> QED BY <1>1, <1>2, <1>3, <1>4, <1>5, <1>6, <1>7, <1>8, <1>9, <1>10, <1>11, <1>12, <1>13, <1>14, <1>15, <1>16, <1>17, <1>18, <1>19, <1>20, <1>21, <1>22, <1>23, <1>24, <1>25, <1>26, <1>27, <1>28, <1>29 DEF Next, Staging, Booting

\* What is reported as restored is in place, all of it, unless the record's copies
\* were removed under it (torn).
THEOREM ReportsAreTrue == Spec => []ReportedIsRestored
<1>1. Init => ReportedIsRestored
  BY DEF Init, ReportedIsRestored
<1> QED BY <1>1, ReportStep, ControlStep, RestoreInit, RestoreStep, PTL DEF Spec

=============================================================================
