-------------------------- MODULE StageRunner_proofs -------------------------
(***************************************************************************)
(* Proofs about `just up' and `just demo-reset' for any number of faults,  *)
(* certificates and settings of the interruption hook.                     *)
(***************************************************************************)
EXTENDS StageRunner, TLAPS

USE RunnerAssumption

LEMMA StageCount == Len(Stages) = 10
BY DEF Stages

\* The organization's work is the only one with a part "creds" or "org".
LEMMA WorkOfOrg ==
  ASSUME NEW k \in 1..10, NEW i \in 1..8, i <= Len(Work(Stages[k]))
  PROVE  /\ Work(Stages[k])[i] = "org" <=> k = 4 /\ i = 4
         /\ Work(Stages[k])[i] = "creds" <=> k = 4 /\ i = 3
BY DEF Work, OrgWork, Stages

LEMMA WorkLength ==
  ASSUME NEW k \in 1..10
  PROVE  Len(Work(Stages[k])) \in 0..8 /\ (Work(Stages[k]) = << >> <=> Len(Work(Stages[k])) = 0)
<1>1. CASE k = 1
  BY <1>1 DEF Work, Stages
<1>2. CASE k \in {2, 3, 9, 10}
  <2>1. PICK part : Work(Stages[k]) = <<part>>
    BY <1>2 DEF Work, Stages
  <2> QED
    BY <2>1
<1>3. CASE k = 4
  <2>1. Work(Stages[k]) = <<"token", "gate", "creds", "org">>
    BY <1>3 DEF Work, OrgWork, Stages
  <2> QED
    BY <2>1
<1>4. CASE k = 5
  <2>1. Work(Stages[k]) = <<"gate", "tenants", "admins", "truncate", "map", "anchor",
                            "cas", "caPems">>
    BY <1>4 DEF Work, Stages
  <2> QED
    BY <2>1
<1>5. CASE k \in {6, 8}
  <2>1. PICK part : Work(Stages[k]) = <<"gate", part>>
    BY <1>5 DEF Work, Stages
  <2> QED
    BY <2>1
<1>6. CASE k = 7
  <2>1. Work(Stages[k]) = <<"gate", "keys", "certs", "tree">>
    BY <1>6 DEF Work, Stages
  <2> QED
    BY <2>1
<1> QED
  BY <1>1, <1>2, <1>3, <1>4, <1>5, <1>6

LEMMA Within ==
  ASSUME NEW n \in 0..8, NEW p \in 1..8, p <= n, p # n
  PROVE  p + 1 \in 1..8 /\ p + 1 <= n
OBVIOUS

-----------------------------------------------------------------------------
(***************************************************************************)
(* Where a run can be: within the work of its stage.                       *)
(***************************************************************************)
RunOK ==
  /\ run \in AtEnd \cup InUp \cup InWork \cup InReset
  /\ run.at = "work" => run.part <= Len(Work(Stages[run.stage]))

USE DEF Ended

LEMMA RunStage ==
  ASSUME RunOK, run.at \in {"check", "mark", "work"}
  PROVE  run.stage \in 1..10 /\ run.failAt \in FailAts
BY StageCount DEF RunOK, AtEnd, InUp, InWork, InReset

LEMMA RunPart ==
  ASSUME RunOK, run.at = "work"
  PROVE  run \in InWork /\ run.part \in 1..8 /\ run.part <= Len(Work(Current))
BY StageCount DEF RunOK, AtEnd, InUp, InWork, InReset, Current

LEMMA EndOK ==
  ASSUME RunOK, NEW how \in Ended, run' = End(how)
  PROVE  RunOK' /\ run'.at = how
BY DEF RunOK, End, Resetting, AtEnd, InUp, InWork, InReset

LEMMA BeginOK ==
  ASSUME RunOK, run.at = "check", run' = Begin(run.stage)
  PROVE  RunOK' /\ (run'.at = "work" => run'.part = 1)
<1>1. run.stage \in 1..10 /\ run.failAt \in FailAts
  BY RunStage
<1>2. CASE Work(Stages[run.stage]) = << >>
  BY <1>1, <1>2, StageCount DEF Begin, RunOK, InUp
<1>3. CASE Work(Stages[run.stage]) # << >>
  <2>1. Len(Work(Stages[run.stage])) >= 1
    BY <1>1, <1>3, WorkLength
  <2>2. run' = [at |-> "work", stage |-> run.stage, part |-> 1, failAt |-> run.failAt]
    BY <1>3 DEF Begin
  <2>3. run' \in InWork
    BY <1>1, <2>2, StageCount DEF InWork
  <2> QED
    BY <2>1, <2>2, <2>3 DEF RunOK
<1> QED
  BY <1>2, <1>3

LEMMA AfterOK ==
  ASSUME RunOK, run.at \in {"check", "mark"}, run' = After(run.stage)
  PROVE  RunOK' /\ run'.at # "work"
<1>1. run.stage \in 1..10 /\ run.failAt \in FailAts
  BY RunStage
<1>2. CASE run.stage = 10
  <2>1. run' = End("done")
    BY <1>2, StageCount DEF After
  <2> QED
    BY <2>1, EndOK
<1>3. CASE run.stage # 10
  <2>1. run' = [at |-> "check", stage |-> run.stage + 1, failAt |-> run.failAt]
    BY <1>3, StageCount DEF After
  <2> QED
    BY <1>1, <1>3, <2>1, StageCount DEF RunOK, InUp
<1> QED
  BY <1>2, <1>3

LEMMA OnwardOK ==
  ASSUME RunOK, run.at = "work", Onward
  PROVE  /\ RunOK'
         /\ run'.at = "work" => run'.stage = run.stage /\ run'.part = run.part + 1
<1>1. run \in InWork /\ run.stage \in 1..10 /\ run.failAt \in FailAts
  BY RunStage, RunPart
<1>2. run.part \in 1..8 /\ run.part <= Len(Work(Stages[run.stage]))
  BY RunPart DEF Current
<1>3. Len(Work(Stages[run.stage])) \in 0..8
  BY <1>1, WorkLength
<1>4. CASE run.part = Len(Work(Stages[run.stage]))
  BY <1>1, <1>4, StageCount DEF Onward, Current, RunOK, InUp
<1>5. CASE run.part # Len(Work(Stages[run.stage]))
  <2>1. run' = [run EXCEPT !.part = run.part + 1]
    BY <1>5 DEF Onward, Current
  <2>2. run.part + 1 \in 1..8 /\ run.part + 1 <= Len(Work(Stages[run.stage]))
    BY <1>2, <1>3, <1>5, Within
  <2>3. run' = [at |-> "work", stage |-> run.stage, part |-> run.part + 1,
                failAt |-> run.failAt]
    BY <1>1, <2>1 DEF InWork
  <2>4. run' \in InWork /\ run'.stage = run.stage /\ run'.part = run.part + 1
    BY <1>1, <2>2, <2>3, StageCount DEF InWork
  <2> QED
    BY <2>2, <2>4 DEF RunOK
<1> QED
  BY <1>4, <1>5

-----------------------------------------------------------------------------
(***************************************************************************)
(* The inductive invariant: the step that spends the gate is only reached  *)
(* past the step that persists the credentials, and nothing unmakes those. *)
(***************************************************************************)
CredsFirst == run.at = "work" /\ run.stage = 4 /\ run.part = 4 => creds = "whole"

Inv == RunOK /\ NeverLockedOut /\ CredsFirst

\* A step of the work other than persisting credentials or creating the
\* organization.
LEMMA OtherWork ==
  ASSUME Inv, run.at = "work", NEW part, Work(Current)[run.part] = part, part # "creds",
         creds' = creds, gate' = "spent" => gate = "spent",
         Onward \/ run' = End("failed")
  PROVE  Inv'
<1>1. run.part \in 1..8 /\ run.part <= Len(Work(Stages[run.stage])) /\ run.stage \in 1..10
  BY RunStage, RunPart DEF Inv, Current
<1>2. ~(run.stage = 4 /\ run.part = 3)
  BY <1>1, WorkOfOrg DEF Current
<1>3. CASE Onward
  BY <1>1, <1>2, <1>3, OnwardOK DEF Inv, NeverLockedOut, CredsFirst
<1>4. CASE run' = End("failed")
  BY <1>4, EndOK DEF Inv, NeverLockedOut, CredsFirst
<1> QED
  BY <1>3, <1>4

\* A step that touches neither credentials nor gate and ends off the work.
LEMMA Elsewhere ==
  ASSUME Inv, RunOK', creds' = creds, gate' = "spent" => gate = "spent",
         run'.at # "work"
  PROVE  Inv'
BY DEF Inv, NeverLockedOut, CredsFirst

LEMMA InvInit == Init => Inv
BY DEF Init, Inv, RunOK, AtEnd, NeverLockedOut, CredsFirst

LEMMA ProceedKeeps == Inv /\ Proceed => Inv'
<1> SUFFICES ASSUME Inv, Proceed PROVE Inv'
  OBVIOUS
<1>0. RunOK
  BY DEF Inv
<1>1. CASE Check
  <2>1. CASE Current \in HostOwned /\ run.failAt = Current
    BY <1>0, <1>1, <2>1, EndOK, Elsewhere DEF Check
  <2>2. CASE ~(Current \in HostOwned /\ run.failAt = Current)
    <3>1. creds = "whole" => creds' = "whole"
      BY <1>1, <2>2 DEF Check, Minted
    <3>2. run' = After(run.stage) \/ run' = Begin(run.stage)
      BY <1>1, <2>2 DEF Check
    <3>3. RunOK' /\ (run'.at = "work" => run'.part = 1)
      BY <1>0, <1>1, <3>2, AfterOK, BeginOK DEF Check
    <3> QED
      BY <1>1, <3>1, <3>3 DEF Check, Inv, NeverLockedOut, CredsFirst
  <2> QED
    BY <2>1, <2>2
<1>2. CASE Ensure
  <2>1. PICK part \in Parts \ {"axiam", "keys"} : Working(part)
    BY <1>2 DEF Ensure
  <2> QED
    BY <1>2, <2>1, OtherWork DEF Ensure, Working, Parts
<1>3. CASE StartAxiam
  BY <1>3, OtherWork DEF StartAxiam, Working
<1>4. CASE CaptureToken
  BY <1>4, OtherWork DEF CaptureToken, Working
<1>5. CASE PassGate
  BY <1>5, OtherWork DEF PassGate, Working, world
<1>6. CASE PersistCreds
  <2>1. run.at = "work"
    BY <1>6 DEF PersistCreds, Working
  <2>2. CASE creds = "torn"
    BY <1>0, <1>6, <2>2, EndOK, Elsewhere DEF PersistCreds
  <2>3. CASE creds # "torn"
    BY <1>0, <1>6, <2>1, <2>3, OnwardOK DEF PersistCreds, Inv, NeverLockedOut, CredsFirst
  <2> QED
    BY <2>2, <2>3
<1>7. CASE BootstrapOrg
  <2>1. run.at = "work" /\ Work(Stages[run.stage])[run.part] = "org"
    BY <1>7 DEF BootstrapOrg, Working, Current
  <2>2. run.part \in 1..8 /\ run.part <= Len(Work(Stages[run.stage])) /\ run.stage \in 1..10
    BY <1>0, <2>1, RunStage, RunPart DEF Current
  <2>3. creds = "whole" /\ creds' = "whole"
    BY <1>7, <2>1, <2>2, WorkOfOrg DEF Inv, CredsFirst, BootstrapOrg
  <2>4. Onward \/ run' = End("refused")
    BY <1>7 DEF BootstrapOrg
  <2>5. RunOK'
    BY <1>0, <2>1, <2>4, OnwardOK, EndOK
  <2> QED
    BY <2>3, <2>5 DEF Inv, NeverLockedOut, CredsFirst
<1>8. CASE TruncateMap
  BY <1>8, OtherWork DEF TruncateMap, Working
<1>9. CASE EnsureKeys
  BY <1>9, OtherWork DEF EnsureKeys, Working
<1>10. CASE IssueCert
  BY <1>10, OtherWork DEF IssueCert, Working
<1>11. CASE Verify
  BY <1>11, OtherWork DEF Verify, Working, world
<1>12. CASE Mark
  BY <1>0, <1>12, AfterOK, Elsewhere DEF Mark, world
<1>13. ASSUME NEW volume \in Volumes, RemoveVolume(volume)
       PROVE  Inv'
  <2>1. run.at = "volumes" /\ run' = [run EXCEPT !.left = run.left \ {volume}]
    BY <1>13 DEF RemoveVolume, Dispatch
  <2>2. RunOK' /\ run'.at # "work"
    BY <1>0, <2>1 DEF RunOK, AtEnd, InUp, InWork, InReset
  <2> QED
    BY <1>13, <2>2, Elsewhere DEF RemoveVolume
<1>14. CASE ClearMarkers
  BY <1>14, Elsewhere DEF ClearMarkers, RunOK, InReset
<1>15. CASE ClearMaterial
  <2>1. RunOK' /\ run'.at # "work"
    BY <1>15, StageCount DEF ClearMaterial, RunOK, InUp
  <2> QED
    BY <1>15, <2>1, Elsewhere DEF ClearMaterial
<1> QED
  BY <1>1, <1>2, <1>3, <1>4, <1>5, <1>6, <1>7, <1>8, <1>9, <1>10, <1>11, <1>12,
     <1>13, <1>14, <1>15 DEF Proceed

LEMMA DisturbKeeps == Inv /\ Disturb => Inv'
<1> SUFFICES ASSUME Inv, Disturb PROVE Inv'
  OBVIOUS
<1>0. RunOK
  BY DEF Inv
<1>1. CASE ProbeMisses
  <2>1. RunOK' /\ (run'.at = "work" => run'.part = 1)
    BY <1>0, <1>1, BeginOK DEF ProbeMisses
  <2> QED
    BY <1>1, <2>1 DEF ProbeMisses, world, Inv, NeverLockedOut, CredsFirst
<1>2. CASE CatalogProbeFailsOpen
  BY <1>0, <1>2, AfterOK, Elsewhere DEF CatalogProbeFailsOpen, world
<1>3. CASE BootstrapUnheard
  <2>1. run.at = "work" /\ Work(Stages[run.stage])[run.part] = "org"
    BY <1>3 DEF BootstrapUnheard, Working, Current
  <2>2. run.part \in 1..8 /\ run.part <= Len(Work(Stages[run.stage])) /\ run.stage \in 1..10
    BY <1>0, <2>1, RunStage, RunPart DEF Current
  <2>3. creds = "whole" /\ creds' = "whole"
    BY <1>3, <2>1, <2>2, WorkOfOrg DEF Inv, CredsFirst, BootstrapUnheard
  <2> QED
    BY <1>0, <1>3, <2>3, EndOK DEF BootstrapUnheard, Inv, NeverLockedOut, CredsFirst
<1>4. CASE Interrupt
  BY <1>0, <1>4, EndOK, Elsewhere DEF Interrupt, world
<1>5. CASE TearCreds
  <2>1. gate # "spent" /\ gate' = gate
    BY <1>5 DEF TearCreds, Inv, NeverLockedOut
  <2>2. RunOK' /\ run'.at = "failed"
    BY <1>0, <1>5, EndOK DEF TearCreds
  <2> QED
    BY <2>1, <2>2 DEF Inv, NeverLockedOut, CredsFirst
<1>6. CASE Down
  BY <1>6, Elsewhere DEF Down, RunOK, AtEnd
<1>7. ASSUME NEW volume \in Volumes, KeepVolume(volume)
      PROVE  Inv'
  <2>1. run.at = "volumes" /\ run' = [run EXCEPT !.left = run.left \ {volume}]
    BY <1>7 DEF KeepVolume, Dispatch
  <2>2. RunOK' /\ run'.at # "work"
    BY <1>0, <2>1 DEF RunOK, AtEnd, InUp, InWork, InReset
  <2> QED
    BY <1>7, <2>2, Elsewhere DEF KeepVolume, world
<1>8. CASE BeginResetInUse
  BY <1>8, Elsewhere DEF BeginResetInUse, world, RunOK, InReset
<1> QED
  BY <1>1, <1>2, <1>3, <1>4, <1>5, <1>6, <1>7, <1>8 DEF Disturb

LEMMA OperateKeeps == Inv /\ Operate => Inv'
<1> SUFFICES ASSUME Inv, Operate PROVE Inv'
  OBVIOUS
<1>1. CASE BeginReset
  <2>1. RunOK' /\ run'.at # "work"
    BY <1>1 DEF BeginReset, RunOK, InReset
  <2> QED
    BY <1>1, <2>1, Elsewhere DEF BeginReset
<1>2. ASSUME NEW failAt \in FailAts, Up(failAt)
      PROVE  Inv'
  <2>1. RunOK' /\ run'.at # "work"
    BY <1>2, StageCount DEF Up, RunOK, InUp
  <2> QED
    BY <1>2, <2>1, Elsewhere DEF Up, world
<1> QED
  BY <1>1, <1>2 DEF Operate

(***************************************************************************)
(* However runs, resets, crashes and failing calls follow on each other,   *)
(* an organization exists only once its super-admin's password is on disk. *)
(***************************************************************************)
THEOREM CredentialsSurvive == Spec => []NeverLockedOut
<1>1. Inv /\ UNCHANGED vars => Inv'
  BY DEF Inv, vars, world, RunOK, NeverLockedOut, CredsFirst
<1>2. Inv /\ [Next]_vars => Inv'
  BY <1>1, ProceedKeeps, DisturbKeeps, OperateKeeps DEF Next
<1>3. Inv => NeverLockedOut
  BY DEF Inv
<1> QED
  BY <1>2, <1>3, InvInit, PTL DEF Spec

-----------------------------------------------------------------------------
(***************************************************************************)
(* Every variable but run has its type (RunOK is the type of run).         *)
(***************************************************************************)
WorldOK ==
  /\ place \subseteq Parts
  /\ gate \in {"none", "open", "spent"} /\ logged \in BOOLEAN
  /\ saved \in {None, "current", "stale"}
  /\ creds \in {"absent", "torn", "whole"}
  /\ leaves \in 0..MaxLeaves
  /\ markers \subseteq StageNames
  /\ faults \in 0..MaxFaults

(***************************************************************************)
(* What a part of the work leaves for good in a run: all that a probe looks*)
(* at, the keypairs and a certificate for them.                            *)
(***************************************************************************)
PartDone(part) ==
  /\ part \in ProbedParts \cup {"keys"} => part \in place
  /\ part = "org" => gate = "spent"
  /\ part = "certs" => "bound" \in place /\ leaves >= 1
  /\ part = "verified" => leaves = 1

\* The parts a run is past: of the stages before its own, and of its own.
Past(j, i) ==
  \/ j < run.stage
  \/ j = run.stage /\ (run.at = "mark" \/ (run.at = "work" /\ i < run.part))

Solid ==
  run.at \in {"check", "work", "mark"} =>
    \A j \in 1..10 : \A i \in 1..Len(Work(Stages[j])) : Past(j, i) => PartDone(Work(Stages[j])[i])

(***************************************************************************)
(* What the marker of service-certs vouches for where its probe is blind:  *)
(* the keypairs, and that a certificate there is one of them.  Keypairs are*)
(* taken away by a reset only, and never past the markers.  Where one is   *)
(* for a keypair, there is one.                                            *)
(***************************************************************************)
Marked ==
  /\ "service-certs" \in markers => "keys" \in place /\ (leaves >= 1 => "bound" \in place)
  /\ run.at = "material" => markers = {}
  /\ "bound" \in place => leaves >= 1

Ready == Inv /\ WorldOK /\ Solid /\ Marked

(***************************************************************************)
(* The index of a part is no more than eight.                              *)
(***************************************************************************)
LEMMA Index ==
  ASSUME NEW n \in 0..8, NEW i \in 1..n
  PROVE  i \in 1..8 /\ i <= n
OBVIOUS

(***************************************************************************)
(* Where in the stages the parts are that later ones could disturb.        *)
(***************************************************************************)
LEMMA WorkAt ==
  ASSUME NEW k \in 1..10, NEW i \in 1..Len(Work(Stages[k]))
  PROVE  /\ Work(Stages[k])[i] = "keys" <=> k = 7 /\ i = 2
         /\ Work(Stages[k])[i] = "certs" <=> k = 7 /\ i = 3
         /\ Work(Stages[k])[i] = "verified" <=> k = 10
         /\ Work(Stages[k])[i] # "bound"
<1>1. i \in 1..8 /\ i <= Len(Work(Stages[k]))
  BY WorkLength, Index
<1>. QED  BY <1>1 DEF Work, OrgWork, Stages

(***************************************************************************)
(* A step that takes nothing but the Twin's map away leaves a part as done *)
(* as it was.                                                              *)
(***************************************************************************)
LEMMA StaysDone ==
  ASSUME NEW part, PartDone(part), place \ {"map"} \subseteq place',
         gate = "spent" => gate' = "spent", leaves' = leaves
  PROVE  PartDone(part)'
BY DEF PartDone, ProbedParts

(***************************************************************************)
(* A run that goes on to the next part has done the one it was at.         *)
(***************************************************************************)
LEMMA OnwardSolid ==
  ASSUME RunOK, Solid, run.at = "work", Onward,
         NEW part, part = Work(Current)[run.part], PartDone(part)',
         \A j \in 1..10 : \A i \in 1..Len(Work(Stages[j])) :
           Past(j, i) => PartDone(Work(Stages[j])[i])'
  PROVE  Solid'
<1>0. /\ run \in InWork /\ run.stage \in 1..10 /\ run.part \in 1..8
      /\ run.part <= Len(Work(Stages[run.stage])) /\ Len(Work(Stages[run.stage])) \in 0..8
  BY RunStage, RunPart, WorkLength DEF Current
<1>1. ASSUME NEW j \in 1..10, NEW i \in 1..Len(Work(Stages[j])), Past(j, i)'
      PROVE  Past(j, i) \/ (j = run.stage /\ i = run.part)
  <2>0. i \in Nat /\ i >= 1 /\ i <= Len(Work(Stages[j])) /\ j \in Nat
    BY <1>1, WorkLength
  <2>1. CASE run.part = Len(Work(Current))
    <3>1. run' = [at |-> "mark", stage |-> run.stage, failAt |-> run.failAt]
      BY <2>1 DEF Onward
    <3>2. j < run.stage \/ j = run.stage
      BY <1>1, <3>1 DEF Past
    <3>3. j = run.stage => i <= run.part
      BY <2>0, <2>1 DEF Current
    <3>. QED  BY <1>0, <2>0, <3>2, <3>3 DEF Past
  <2>2. CASE run.part # Len(Work(Current))
    <3>1. run' = [run EXCEPT !.part = run.part + 1]
      BY <2>2 DEF Onward
    <3>2. run'.at = "work" /\ run'.stage = run.stage /\ run'.part = run.part + 1
      BY <1>0, <3>1 DEF InWork
    <3>. QED  BY <1>0, <1>1, <2>0, <3>2 DEF Past
  <2>. QED  BY <2>1, <2>2
<1>. QED  BY <1>1 DEF Solid, Current

(***************************************************************************)
(* A run that goes on to the next stage has done the one it was at.        *)
(***************************************************************************)
LEMMA AfterSolid ==
  ASSUME RunOK, run.at \in {"check", "mark"}, run' = After(run.stage),
         \A j \in 1..10 : \A i \in 1..Len(Work(Stages[j])) :
           j <= run.stage => PartDone(Work(Stages[j])[i])'
  PROVE  Solid'
<1>0. run.stage \in 1..10
  BY RunStage
<1>1. CASE run.stage = 10
  BY <1>1, StageCount, EndOK DEF After, Solid
<1>2. CASE run.stage # 10
  <2>1. run'.at = "check" /\ run'.stage = run.stage + 1
    BY <1>2, StageCount DEF After
  <2>2. \A j \in 1..10 : \A i : Past(j, i)' => j <= run.stage
    BY <1>0, <2>1 DEF Past
  <2>. QED  BY <2>2 DEF Solid
<1>. QED  BY <1>1, <1>2

(***************************************************************************)
(* A run that begins a stage's work is past no part of it.                 *)
(***************************************************************************)
LEMMA BeginSolid ==
  ASSUME RunOK, Solid, run.at = "check", run' = Begin(run.stage),
         \A j \in 1..10 : \A i \in 1..Len(Work(Stages[j])) :
           Past(j, i) => PartDone(Work(Stages[j])[i])'
  PROVE  Solid'
<1>0. run.stage \in 1..10
  BY RunStage
<1>1. ASSUME NEW j \in 1..10, NEW i \in 1..Len(Work(Stages[j])), Past(j, i)'
      PROVE  Past(j, i)
  <2>0. i \in Nat /\ i >= 1 /\ i <= Len(Work(Stages[j])) /\ Len(Work(Stages[j])) \in 0..8
    BY WorkLength
  <2>1. CASE Work(Stages[run.stage]) = << >>
    <3>1. run' = [at |-> "mark", stage |-> run.stage, failAt |-> run.failAt]
      BY <2>1 DEF Begin
    <3>2. j = run.stage => FALSE
      <4>1. Len(Work(Stages[run.stage])) = 0
        BY <1>0, <2>1, WorkLength
      <4>. QED  BY <2>0, <4>1
    <3>. QED  BY <1>1, <3>1, <3>2 DEF Past
  <2>2. CASE Work(Stages[run.stage]) # << >>
    <3>1. run'.at = "work" /\ run'.stage = run.stage /\ run'.part = 1
      BY <2>2 DEF Begin
    <3>. QED  BY <1>1, <2>0, <3>1 DEF Past
  <2>. QED  BY <2>1, <2>2
<1>. QED  BY <1>1 DEF Solid

(***************************************************************************)
(* A stage that is skipped is done: its probe says so, or the marker where *)
(* the probe does not look.                                                *)
(***************************************************************************)
LEMMA SkippedIsDone ==
  ASSUME RunOK, Marked, WorldOK, run.at = "check", Skips(Current),
         NEW i \in 1..Len(Work(Stages[run.stage]))
  PROVE  PartDone(Work(Stages[run.stage])[i])
<1>0. run.stage \in 1..10 /\ Current = Stages[run.stage] /\ i \in 1..8
      /\ i <= Len(Work(Stages[run.stage]))
  <2>1. run.stage \in 1..10
    BY RunStage
  <2>2. Len(Work(Stages[run.stage])) \in 0..8
    BY <2>1, WorkLength
  <2>. QED  BY <2>1, <2>2, Index DEF Current
<1>1. run.stage \notin {1, 10}
  BY <1>0 DEF Skips, Resumable, Stages
<1>2. CASE run.stage = 2
  BY <1>0, <1>2 DEF Skips, Probe, PartDone, Work, Stages
<1>3. CASE run.stage = 3
  BY <1>0, <1>3 DEF Skips, Probe, PartDone, Work, Stages
<1>4. CASE run.stage = 4
  <2>1. gate = "spent"
    BY <1>0, <1>4 DEF Skips, Probe, SignsIn, Stages
  <2>2. Work(Stages[run.stage])[i] \in {"token", "gate", "creds", "org"}
    BY <1>0, <1>4 DEF Work, OrgWork, Stages
  <2>. QED  BY <2>1, <2>2 DEF PartDone, ProbedParts
<1>5. CASE run.stage = 5
  <2>1. {"tenants", "admins", "cas", "axiam"} \subseteq place
    BY <1>0, <1>5 DEF Skips, Probe, SignsIn, Stages
  <2>2. Work(Stages[run.stage])[i] \in {"gate", "tenants", "admins", "truncate", "map",
                                        "anchor", "cas", "caPems"}
    BY <1>0, <1>5 DEF Work, Stages
  <2>. QED  BY <2>1, <2>2 DEF PartDone, ProbedParts
<1>6. CASE run.stage = 6
  <2>1. Work(Stages[run.stage])[i] \in {"gate", "catalog"}
    BY <1>0, <1>6 DEF Work, Stages
  <2>. QED  BY <2>1 DEF PartDone, ProbedParts
<1>7. CASE run.stage = 7
  <2>1. "tree" \in place /\ leaves = 1 /\ "service-certs" \in markers
    BY <1>0, <1>7 DEF Skips, Probe, Stages
  <2>2. Work(Stages[run.stage])[i] \in {"gate", "keys", "certs", "tree"}
    BY <1>0, <1>7 DEF Work, Stages
  <2>. QED  BY <2>1, <2>2 DEF PartDone, ProbedParts, Marked
<1>8. CASE run.stage = 8
  <2>1. "vhost" \in place
    BY <1>0, <1>8 DEF Skips, Probe, Stages
  <2>2. Work(Stages[run.stage])[i] \in {"gate", "vhost"}
    BY <1>0, <1>8 DEF Work, Stages
  <2>. QED  BY <2>1, <2>2 DEF PartDone, ProbedParts
<1>9. CASE run.stage = 9
  BY <1>0, <1>9 DEF Skips, Probe, PartDone, Work, Stages
<1>. QED  BY <1>0, <1>1, <1>2, <1>3, <1>4, <1>5, <1>6, <1>7, <1>8, <1>9

-----------------------------------------------------------------------------
(***************************************************************************)
(* A step of the work that does its part and disturbs no other.            *)
(***************************************************************************)
LEMMA WorkSolid ==
  ASSUME Ready, NEW part, Working(part), Onward \/ run'.at \in Ended,
         PartDone(part)', place \ {"map"} \subseteq place',
         gate = "spent" => gate' = "spent", leaves' = leaves
  PROVE  Solid'
<1>0. RunOK /\ Solid /\ run.at = "work" /\ part = Work(Current)[run.part]
  BY DEF Ready, Inv, Working
<1>1. \A j \in 1..10 : \A i \in 1..Len(Work(Stages[j])) :
        Past(j, i) => PartDone(Work(Stages[j])[i])'
  BY <1>0, StaysDone DEF Solid
<1>2. CASE Onward
  BY <1>0, <1>1, <1>2, OnwardSolid
<1>3. CASE run'.at \in Ended
  BY <1>3 DEF Solid
<1>. QED  BY <1>2, <1>3

(***************************************************************************)
(* Making or renewing a keypair takes away only that a certificate is for  *)
(* it, and that before the run is past its certificates.                   *)
(***************************************************************************)
LEMMA KeysSolid ==
  ASSUME Ready, EnsureKeys
  PROVE  Solid'
<1>0. /\ RunOK /\ Solid /\ run.at = "work" /\ "keys" = Work(Current)[run.part] /\ Onward
      /\ gate' = gate /\ leaves' = leaves
  BY DEF Ready, Inv, EnsureKeys, Working
<1>1. run.stage = 7 /\ run.part = 2
  <2>1. run.stage \in 1..10 /\ run.part \in 1..8 /\ run.part <= Len(Work(Current))
    BY <1>0, RunStage, RunPart
  <2>2. run.part \in 1..Len(Work(Stages[run.stage]))
    BY <2>1, WorkLength DEF Current
  <2>. QED  BY <1>0, <2>1, <2>2, WorkAt DEF Current
<1>2. "keys" \in place' /\ place \ {"bound"} \subseteq place'
  BY DEF EnsureKeys
<1>3. PartDone("keys")'
  BY <1>2 DEF PartDone
<1>4. ASSUME NEW j \in 1..10, NEW i \in 1..Len(Work(Stages[j])), Past(j, i)
      PROVE  PartDone(Work(Stages[j])[i])'
  <2>1. PartDone(Work(Stages[j])[i])
    BY <1>0, <1>4 DEF Solid
  <2>2. Work(Stages[j])[i] # "certs"
    <3>1. ~(j = 7 /\ i = 3)
      BY <1>0, <1>1, <1>4 DEF Past
    <3>. QED  BY <3>1, WorkAt
  <2>3. Work(Stages[j])[i] # "bound"
    BY WorkAt
  <2>. QED  BY <1>0, <1>2, <2>1, <2>2, <2>3 DEF PartDone
<1>. QED  BY <1>0, <1>3, <1>4, OnwardSolid

(***************************************************************************)
(* Signing a certificate adds one, before the run has counted them.        *)
(***************************************************************************)
LEMMA CertSolid ==
  ASSUME Ready, IssueCert
  PROVE  Solid' /\ leaves' \in 0..MaxLeaves /\ leaves' >= leaves
<1>0. /\ RunOK /\ Solid /\ run.at = "work" /\ "certs" = Work(Current)[run.part] /\ Onward
      /\ gate' = gate /\ place' = place \cup {"bound"} /\ leaves \in 0..MaxLeaves
  BY DEF Ready, Inv, IssueCert, Working, WorldOK
<1>1. run.stage = 7 /\ run.part = 3
  <2>1. run.stage \in 1..10 /\ run.part \in 1..8 /\ run.part <= Len(Work(Current))
    BY <1>0, RunStage, RunPart
  <2>2. run.part \in 1..Len(Work(Stages[run.stage]))
    BY <2>1, WorkLength DEF Current
  <2>. QED  BY <1>0, <2>1, <2>2, WorkAt DEF Current
<1>2. leaves' \in 0..MaxLeaves /\ leaves' >= leaves
  BY <1>0 DEF IssueCert
<1>3. leaves' >= 1
  BY <1>0, <1>2 DEF IssueCert, Ready, Marked
<1>4. PartDone("certs")'
  BY <1>0, <1>3 DEF PartDone, ProbedParts
<1>5. ASSUME NEW j \in 1..10, NEW i \in 1..Len(Work(Stages[j])), Past(j, i)
      PROVE  PartDone(Work(Stages[j])[i])'
  <2>1. PartDone(Work(Stages[j])[i])
    BY <1>0, <1>5 DEF Solid
  <2>2. Work(Stages[j])[i] # "verified"
    <3>1. j # 10
      BY <1>1, <1>5 DEF Past
    <3>. QED  BY <3>1, WorkAt
  <2>. QED  BY <1>0, <1>3, <2>1, <2>2 DEF PartDone
<1>. QED  BY <1>0, <1>2, <1>4, <1>5, OnwardSolid

(***************************************************************************)
(* Every step of a command keeps the four together.                        *)
(***************************************************************************)
LEMMA ProceedReady ==
  ASSUME Ready, Proceed
  PROVE  Ready'
<1>0. Inv /\ RunOK /\ WorldOK /\ Solid /\ Marked
  BY DEF Ready, Inv
<1>i. Inv'
  BY <1>0, ProceedKeeps
<1>w. ASSUME run.at = "work", Onward \/ run' = End("failed") \/ run' = End("refused")
      PROVE  /\ Onward \/ run'.at \in Ended
             /\ run'.at # "material"
  <2>1. CASE Onward
    BY <1>0, <1>w, <2>1, RunPart DEF Onward, InWork
  <2>2. CASE run' = End("failed") \/ run' = End("refused")
    BY <1>0, <2>2, EndOK
  <2>. QED  BY <1>w, <2>1, <2>2
<1>1. CASE Check
  <2>1. CASE Current \in HostOwned /\ run.failAt = Current
    <3>1. run'.at = "failed"
      BY <1>0, <1>1, <2>1, EndOK DEF Check
    <3>. QED  BY <1>0, <1>1, <1>i, <2>1, <3>1 DEF Check, Ready, WorldOK, Solid, Marked
  <2>2. CASE ~(Current \in HostOwned /\ run.failAt = Current)
    <3>0. /\ run.at = "check" /\ UNCHANGED <<place, gate, logged, saved, leaves, markers, faults>>
          /\ creds' \in {creds, "whole"}
          /\ run' = IF Skips(Current) THEN After(run.stage) ELSE Begin(run.stage)
      BY <1>1, <2>2 DEF Check, Minted
    <3>1. \A part : PartDone(part) => PartDone(part)'
      BY <3>0 DEF PartDone
    <3>2. ASSUME Skips(Current) PROVE Solid'
      <4>1. run.stage \in 1..10
        BY <1>0, <3>0, RunStage
      <4>2. ASSUME NEW j \in 1..10, NEW i \in 1..Len(Work(Stages[j])), j <= run.stage
            PROVE  PartDone(Work(Stages[j])[i])'
        <5>1. CASE j = run.stage
          BY <1>0, <3>0, <3>1, <3>2, <5>1, SkippedIsDone
        <5>2. CASE j < run.stage
          BY <1>0, <3>0, <3>1, <5>2 DEF Solid, Past
        <5>. QED  BY <4>1, <4>2, <5>1, <5>2
      <4>. QED  BY <1>0, <3>0, <3>2, <4>2, AfterSolid
    <3>3. ASSUME ~Skips(Current) PROVE Solid'
      BY <1>0, <3>0, <3>1, <3>3, BeginSolid DEF Solid
    <3>4. run'.at # "material"
      BY <3>0 DEF After, Begin, End
    <3>5. WorldOK' /\ Marked'
      BY <1>0, <3>0, <3>4 DEF WorldOK, Marked
    <3>. QED  BY <1>i, <3>2, <3>3, <3>5 DEF Ready
  <2>. QED  BY <2>1, <2>2
<1>2. CASE Ensure
  <2>1. PICK part \in Parts \ {"axiam", "keys"} : Working(part) /\ place' = place \cup {part}
    BY <1>2 DEF Ensure
  <2>2. run.at = "work" /\ Onward /\ UNCHANGED <<gate, logged, saved, creds, leaves, markers, faults>>
    BY <1>2, <2>1 DEF Ensure, Working
  <2>3. part # "bound"
    <3>1. run.stage \in 1..10 /\ run.part \in 1..8 /\ run.part <= Len(Work(Current))
      BY <1>0, <2>2, RunStage, RunPart
    <3>2. run.part \in 1..Len(Work(Stages[run.stage]))
      BY <3>1, WorkLength DEF Current
    <3>. QED  BY <2>1, <3>1, <3>2, WorkAt DEF Working, Current
  <2>4. PartDone(part)'
    BY <2>1 DEF PartDone, Parts
  <2>5. Solid'
    BY <2>1, <2>2, <2>4, WorkSolid
  <2>6. WorldOK' /\ Marked'
    BY <1>0, <1>w, <2>1, <2>2, <2>3 DEF WorldOK, Marked
  <2>. QED  BY <1>i, <2>5, <2>6 DEF Ready
<1>3. CASE StartAxiam
  <2>1. /\ run.at = "work" /\ Working("axiam") /\ Onward /\ place' = place \cup {"axiam"}
        /\ gate' \in {gate, "open"} /\ (gate = "spent" => gate' = "spent")
        /\ UNCHANGED <<saved, creds, leaves, markers, faults>>
    BY <1>3 DEF StartAxiam, Working
  <2>2. PartDone("axiam")'
    BY <2>1 DEF PartDone
  <2>3. Solid'
    BY <2>1, <2>2, WorkSolid
  <2>4. logged' \in BOOLEAN
    BY <1>3 DEF StartAxiam
  <2>5. WorldOK' /\ Marked'
    BY <1>0, <1>w, <2>1, <2>4 DEF WorldOK, Marked, Parts
  <2>. QED  BY <1>i, <2>3, <2>5 DEF Ready
<1>4. CASE CaptureToken
  <2>1. /\ run.at = "work" /\ Working("token") /\ Onward
        /\ UNCHANGED <<place, gate, logged, creds, leaves, markers, faults>>
        /\ saved' \in {saved, "current"}
    BY <1>4 DEF CaptureToken, Working
  <2>2. PartDone("token")'
    BY DEF PartDone, ProbedParts
  <2>3. Solid'
    BY <2>1, <2>2, WorkSolid
  <2>4. WorldOK' /\ Marked'
    BY <1>0, <1>w, <2>1 DEF WorldOK, Marked
  <2>. QED  BY <1>i, <2>3, <2>4 DEF Ready
<1>5. CASE PassGate
  <2>1. /\ run.at = "work" /\ Working("gate") /\ (Onward \/ run' = End("failed"))
        /\ UNCHANGED <<place, gate, logged, saved, creds, leaves, markers, faults>>
    BY <1>5 DEF PassGate, Working, world
  <2>2. PartDone("gate")'
    BY DEF PartDone, ProbedParts
  <2>3. Solid'
    BY <1>w, <2>1, <2>2, WorkSolid
  <2>4. WorldOK' /\ Marked'
    BY <1>0, <1>w, <2>1 DEF WorldOK, Marked
  <2>. QED  BY <1>i, <2>3, <2>4 DEF Ready
<1>6. CASE PersistCreds
  <2>1. /\ run.at = "work" /\ Working("creds") /\ (Onward \/ run' = End("failed"))
        /\ UNCHANGED <<place, gate, logged, saved, leaves, markers, faults>>
        /\ creds' \in {creds, "whole"}
    BY <1>6 DEF PersistCreds, Working
  <2>2. PartDone("creds")'
    BY DEF PartDone, ProbedParts
  <2>3. Solid'
    BY <1>w, <2>1, <2>2, WorkSolid
  <2>4. WorldOK' /\ Marked'
    BY <1>0, <1>w, <2>1 DEF WorldOK, Marked
  <2>. QED  BY <1>i, <2>3, <2>4 DEF Ready
<1>7. CASE BootstrapOrg
  <2>1. /\ run.at = "work" /\ Working("org") /\ (Onward \/ run' = End("refused"))
        /\ UNCHANGED <<place, logged, saved, creds, leaves, markers, faults>>
        /\ gate' \in {gate, "spent"} /\ (gate = "spent" => gate' = "spent")
    BY <1>7 DEF BootstrapOrg, Working
  <2>2. CASE Onward
    <3>1. gate' = "spent"
      <4>1. CASE gate = "open" /\ saved = "current"
        BY <1>7, <4>1 DEF BootstrapOrg
      <4>2. CASE ~(gate = "open" /\ saved = "current")
        <5>1. SignsIn \/ run' = End("refused")
          BY <1>7, <4>2 DEF BootstrapOrg
        <5>2. run' # End("refused")
          BY <1>0, <2>1, <2>2, RunPart DEF Onward, End, InWork, Resetting
        <5>. QED  BY <2>1, <5>1, <5>2 DEF SignsIn
      <4>. QED  BY <4>1, <4>2
    <3>2. PartDone("org")'
      BY <3>1 DEF PartDone, ProbedParts
    <3>3. Solid'
      BY <2>1, <2>2, <3>2, WorkSolid
    <3>4. WorldOK' /\ Marked'
      BY <1>0, <1>w, <2>1 DEF WorldOK, Marked
    <3>. QED  BY <1>i, <3>3, <3>4 DEF Ready
  <2>3. CASE run' = End("refused")
    <3>1. run'.at = "refused"
      BY <1>0, <2>3, EndOK
    <3>. QED  BY <1>0, <1>i, <2>1, <3>1 DEF Ready, WorldOK, Solid, Marked
  <2>. QED  BY <2>1, <2>2, <2>3
<1>8. CASE TruncateMap
  <2>1. /\ run.at = "work" /\ Working("truncate") /\ Onward /\ place' = place \ {"map"}
        /\ UNCHANGED <<gate, logged, saved, creds, leaves, markers, faults>>
    BY <1>8 DEF TruncateMap, Working
  <2>2. PartDone("truncate")'
    BY DEF PartDone, ProbedParts
  <2>3. Solid'
    BY <2>1, <2>2, WorkSolid
  <2>4. WorldOK' /\ Marked'
    BY <1>0, <1>w, <2>1 DEF WorldOK, Marked
  <2>. QED  BY <1>i, <2>3, <2>4 DEF Ready
<1>9. CASE EnsureKeys
  <2>1. /\ run.at = "work" /\ Onward
        /\ place' = (IF "keys" \in place THEN place ELSE (place \cup {"keys"}) \ {"bound"})
        /\ UNCHANGED <<gate, logged, saved, creds, leaves, markers, faults>>
    BY <1>9 DEF EnsureKeys, Working
  <2>2. WorldOK' /\ Marked'
    BY <1>0, <1>w, <2>1 DEF WorldOK, Marked, Parts
  <2>. QED  BY <1>9, <1>i, <2>2, KeysSolid DEF Ready, Parts
<1>10. CASE IssueCert
  <2>1. /\ run.at = "work" /\ Onward /\ place' = place \cup {"bound"}
        /\ UNCHANGED <<gate, logged, saved, creds, markers, faults>>
    BY <1>10 DEF IssueCert, Working
  <2>2. Solid' /\ leaves' \in 0..MaxLeaves /\ leaves' >= leaves
    BY <1>10, CertSolid
  <2>3. leaves' >= 1
    BY <1>0, <1>10 DEF IssueCert, WorldOK, Marked
  <2>4. WorldOK' /\ Marked'
    BY <1>0, <1>w, <2>1, <2>2, <2>3 DEF WorldOK, Marked, Parts
  <2>. QED  BY <1>i, <2>2, <2>4 DEF Ready
<1>11. CASE Verify
  <2>1. /\ run.at = "work" /\ Working("verified") /\ (Onward \/ run' = End("failed"))
        /\ UNCHANGED <<place, gate, logged, saved, creds, leaves, markers, faults>>
    BY <1>11 DEF Verify, Working, world
  <2>2. WorldOK' /\ Marked'
    BY <1>0, <1>w, <2>1 DEF WorldOK, Marked
  <2>3. CASE leaves = 1
    <3>1. PartDone("verified")'
      BY <2>1, <2>3 DEF PartDone, ProbedParts
    <3>. QED  BY <1>i, <1>w, <2>1, <2>2, <3>1, WorkSolid DEF Ready
  <2>4. CASE leaves # 1
    <3>1. run'.at = "failed"
      BY <1>0, <1>11, <2>4, EndOK DEF Verify
    <3>. QED  BY <1>i, <2>2, <3>1 DEF Ready, Solid
  <2>. QED  BY <2>3, <2>4
<1>12. CASE Mark
  <2>1. /\ run.at = "mark" /\ run' = After(run.stage) /\ markers' = markers \cup {Current}
        /\ UNCHANGED <<place, gate, logged, saved, creds, leaves, faults>>
    BY <1>12 DEF Mark, world
  <2>2. run.stage \in 1..10 /\ Current \in StageNames
    BY <1>0, <2>1, RunStage, StageCount DEF Current, StageNames
  <2>3. \A part : PartDone(part) => PartDone(part)'
    BY <2>1 DEF PartDone
  <2>4. \A j \in 1..10 : \A i \in 1..Len(Work(Stages[j])) :
          j <= run.stage => PartDone(Work(Stages[j])[i])
    <3>1. ASSUME NEW j \in 1..10, NEW i \in 1..Len(Work(Stages[j])), j <= run.stage
          PROVE  PartDone(Work(Stages[j])[i])
      <4>1. j < run.stage \/ j = run.stage
        BY <2>2, <3>1
      <4>2. Past(j, i)
        BY <2>1, <4>1 DEF Past
      <4>. QED  BY <1>0, <2>1, <4>2 DEF Solid
    <3>. QED  BY <3>1
  <2>5. Solid'
    BY <1>0, <2>1, <2>3, <2>4, AfterSolid
  <2>6. Current = "service-certs" => "keys" \in place /\ "bound" \in place
    <3>1. SUFFICES ASSUME Current = "service-certs"
                   PROVE  "keys" \in place /\ "bound" \in place
      OBVIOUS
    <3>2. run.stage = 7
      BY <2>2, <3>1 DEF Current, Stages
    <3>3. Work(Stages[7]) = <<"gate", "keys", "certs", "tree">>
      BY DEF Work, Stages
    <3>4. PartDone("keys") /\ PartDone("certs")
      BY <2>4, <3>2, <3>3
    <3>. QED  BY <3>4 DEF PartDone
  <2>7. run'.at # "material"
    BY <2>1 DEF After, End
  <2>8. WorldOK' /\ Marked'
    BY <1>0, <2>1, <2>2, <2>6, <2>7 DEF WorldOK, Marked
  <2>. QED  BY <1>i, <2>5, <2>8 DEF Ready
<1>13. ASSUME NEW volume \in Volumes, RemoveVolume(volume)
       PROVE  Ready'
  <2>1. /\ run.at = "volumes" /\ place' = place \ KeptOn(volume)
        /\ UNCHANGED <<logged, creds, markers, faults>>
        /\ run' = [run EXCEPT !.left = run.left \ {volume}]
    BY <1>13 DEF RemoveVolume, Dispatch
  <2>2. run'.at = "volumes"
    BY <1>0, <2>1 DEF RunOK, AtEnd, InUp, InWork, InReset
  <2>3. CASE volume = "surrealdb-data"
    BY <1>0, <1>13, <1>i, <2>1, <2>2, <2>3 DEF RemoveVolume, KeptOn, Ready, WorldOK, Solid, Marked
  <2>4. CASE volume # "surrealdb-data"
    <3>1. "keys" \notin KeptOn(volume) /\ "bound" \notin KeptOn(volume)
      BY <2>4 DEF Volumes, KeptOn
    <3>. QED  BY <1>0, <1>13, <1>i, <2>1, <2>2, <2>4, <3>1 DEF RemoveVolume, Ready, WorldOK, Solid, Marked
  <2>. QED  BY <2>3, <2>4
<1>14. CASE ClearMarkers
  BY <1>0, <1>14, <1>i DEF ClearMarkers, Ready, WorldOK, Solid, Marked
<1>15. CASE ClearMaterial
  <2>1. /\ run' = [at |-> "check", stage |-> 1, failAt |-> None] /\ markers = {}
        /\ place' = place \ Material
        /\ UNCHANGED <<gate, logged, saved, creds, leaves, markers, faults>>
    BY <1>0, <1>15 DEF ClearMaterial, Marked
  <2>2. Solid'
    BY <2>1 DEF Solid, Past
  <2>3. WorldOK' /\ Marked'
    BY <1>0, <2>1 DEF WorldOK, Marked, Material
  <2>. QED  BY <1>i, <2>2, <2>3 DEF Ready
<1>. QED  BY <1>1, <1>2, <1>3, <1>4, <1>5, <1>6, <1>7, <1>8, <1>9, <1>10, <1>11, <1>12,
             <1>13, <1>14, <1>15 DEF Proceed

(***************************************************************************)
(* Faults and the operator end commands or begin them.                     *)
(***************************************************************************)
LEMMA DisturbReady ==
  ASSUME Ready, Disturb
  PROVE  Ready'
<1>0. Inv /\ RunOK /\ WorldOK /\ Solid /\ Marked
  BY DEF Ready, Inv
<1>i. Inv'
  BY <1>0, DisturbKeeps
<1>f. Fault => faults' \in 0..MaxFaults
  BY <1>0 DEF Fault, WorldOK
<1>1. CASE ProbeMisses
  <2>1. /\ run.at = "check" /\ run' = Begin(run.stage) /\ faults' \in 0..MaxFaults
        /\ UNCHANGED <<place, gate, logged, saved, creds, leaves, markers>>
    BY <1>1, <1>f DEF ProbeMisses, world
  <2>2. \A part : PartDone(part) => PartDone(part)'
    BY <2>1 DEF PartDone
  <2>3. Solid'
    BY <1>0, <2>1, <2>2, BeginSolid DEF Solid
  <2>4. run'.at # "material"
    BY <2>1 DEF Begin
  <2>5. WorldOK' /\ Marked'
    BY <1>0, <2>1, <2>4 DEF WorldOK, Marked
  <2>. QED  BY <1>i, <2>3, <2>5 DEF Ready
<1>2. CASE CatalogProbeFailsOpen
  <2>1. /\ run.at = "check" /\ Current = "catalog" /\ run' = After(run.stage)
        /\ faults' \in 0..MaxFaults
        /\ UNCHANGED <<place, gate, logged, saved, creds, leaves, markers>>
    BY <1>2, <1>f DEF CatalogProbeFailsOpen, world
  <2>2. run.stage \in 1..10 /\ run.stage = 6
    <3>1. run.stage \in 1..10
      BY <1>0, <2>1, RunStage
    <3>. QED  BY <2>1, <3>1 DEF Current, Stages
  <2>3. \A part : PartDone(part) => PartDone(part)'
    BY <2>1 DEF PartDone
  <2>4. ASSUME NEW j \in 1..10, NEW i \in 1..Len(Work(Stages[j])), j <= run.stage
        PROVE  PartDone(Work(Stages[j])[i])'
    <3>1. CASE j = 6
      <4>1. Work(Stages[j])[i] \in {"gate", "catalog"}
        BY <3>1 DEF Work, Stages
      <4>. QED  BY <4>1 DEF PartDone, ProbedParts
    <3>2. CASE j # 6
      <4>1. j < run.stage
        BY <2>2, <2>4, <3>2
      <4>. QED  BY <1>0, <2>1, <2>3, <4>1 DEF Solid, Past
    <3>. QED  BY <3>1, <3>2
  <2>5. Solid'
    BY <1>0, <2>1, <2>4, AfterSolid
  <2>6. run'.at # "material"
    BY <2>1 DEF After, End
  <2>7. WorldOK' /\ Marked'
    BY <1>0, <2>1, <2>6 DEF WorldOK, Marked
  <2>. QED  BY <1>i, <2>5, <2>7 DEF Ready
<1>3. CASE BootstrapUnheard
  <2>1. run'.at = "failed" /\ faults' \in 0..MaxFaults
    BY <1>0, <1>3, <1>f, EndOK DEF BootstrapUnheard
  <2>. QED  BY <1>0, <1>3, <1>i, <2>1 DEF BootstrapUnheard, Ready, WorldOK, Solid, Marked
<1>4. CASE Interrupt
  <2>1. run'.at = "failed" /\ faults' \in 0..MaxFaults
    BY <1>0, <1>4, <1>f, EndOK DEF Interrupt
  <2>. QED  BY <1>0, <1>4, <1>i, <2>1 DEF Interrupt, world, Ready, WorldOK, Solid, Marked
<1>5. CASE TearCreds
  <2>1. run'.at = "failed" /\ faults' \in 0..MaxFaults
    BY <1>0, <1>5, <1>f, EndOK DEF TearCreds
  <2>. QED  BY <1>0, <1>5, <1>i, <2>1 DEF TearCreds, Ready, WorldOK, Solid, Marked
<1>6. CASE Down
  BY <1>0, <1>6, <1>f, <1>i DEF Down, Containers, Ready, WorldOK, Solid, Marked
<1>7. ASSUME NEW volume \in Volumes, KeepVolume(volume)
      PROVE  Ready'
  <2>1. run.at = "volumes" /\ run' = [run EXCEPT !.left = run.left \ {volume}] /\ faults' \in 0..MaxFaults
    BY <1>7, <1>f DEF KeepVolume, Dispatch
  <2>2. run'.at = "volumes"
    BY <1>0, <2>1 DEF RunOK, AtEnd, InUp, InWork, InReset
  <2>. QED  BY <1>0, <1>7, <1>i, <2>1, <2>2 DEF KeepVolume, world, Ready, WorldOK, Solid, Marked
<1>8. CASE BeginResetInUse
  BY <1>0, <1>8, <1>f, <1>i DEF BeginResetInUse, world, Ready, WorldOK, Solid, Marked
<1>. QED  BY <1>1, <1>2, <1>3, <1>4, <1>5, <1>6, <1>7, <1>8 DEF Disturb

(***************************************************************************)
(* A new `up' is past nothing, a new reset is not under way with `up'.     *)
(***************************************************************************)
LEMMA OperateReady ==
  ASSUME Ready, Operate
  PROVE  Ready'
<1>0. Inv /\ RunOK /\ WorldOK /\ Solid /\ Marked
  BY DEF Ready, Inv
<1>i. Inv'
  BY <1>0, OperateKeeps
<1>1. CASE BeginReset
  BY <1>0, <1>1, <1>i DEF BeginReset, Containers, Ready, WorldOK, Solid, Marked
<1>2. ASSUME NEW failAt \in FailAts, Up(failAt)
      PROVE  Ready'
  <2>1. run' = [at |-> "check", stage |-> 1, failAt |-> failAt]
    BY <1>2 DEF Up
  <2>2. Solid'
    BY <2>1 DEF Solid, Past
  <2>. QED  BY <1>0, <1>2, <1>i, <2>1, <2>2 DEF Up, world, Ready, WorldOK, Marked
<1>. QED  BY <1>1, <1>2 DEF Operate

(***************************************************************************)
(* At first nothing is in place, marked or under way.                      *)
(***************************************************************************)
LEMMA ReadyInit == Init => Ready
<1>. SUFFICES ASSUME Init PROVE Ready
  OBVIOUS
<1>1. WorldOK
  <2>1. logged \in BOOLEAN
    BY DEF Init
  <2>2. leaves \in 0..MaxLeaves /\ faults \in 0..MaxFaults
    BY DEF Init
  <2>3. /\ place \subseteq Parts /\ gate \in {"none", "open", "spent"}
        /\ saved \in {None, "current", "stale"} /\ creds \in {"absent", "torn", "whole"}
        /\ markers \subseteq StageNames
    BY DEF Init
  <2>. QED  BY <2>1, <2>2, <2>3 DEF WorldOK
<1>2. Solid /\ Marked
  BY DEF Init, Solid, Marked
<1>. QED  BY <1>1, <1>2, InvInit DEF Ready

(***************************************************************************)
(* And a step of any kind keeps it so.                                     *)
(***************************************************************************)
LEMMA ReadyNext == Ready /\ [Next]_vars => Ready'
<1>. SUFFICES ASSUME Ready, [Next]_vars PROVE Ready'
  OBVIOUS
<1>1. CASE UNCHANGED vars
  BY <1>1 DEF vars, world, Ready, Inv, RunOK, NeverLockedOut, CredsFirst, WorldOK, Solid, Past,
     PartDone, Marked
<1>. QED  BY <1>1, ProceedReady, DisturbReady, OperateReady DEF Next

(***************************************************************************)
(* A run is always at a part of its stage that there is, and no more       *)
(* certificates are counted than the model bounds (StageRunner.TypeOK).    *)
(***************************************************************************)
THEOREM TypeCorrect == Spec => []TypeOK
<1>1. Ready => TypeOK
  BY DEF Ready, Inv, RunOK, WorldOK, TypeOK
<1>. QED  BY <1>1, ReadyInit, ReadyNext, PTL DEF Spec

-----------------------------------------------------------------------------
(***************************************************************************)
(* A run that is past the work of every stage has done all a probe asks.   *)
(***************************************************************************)
LEMMA AllProbed ==
  ASSUME \A j \in 1..10 : \A i \in 1..Len(Work(Stages[j])) : PartDone(Work(Stages[j])[i])
  PROVE  gate = "spent" /\ ProbedParts \subseteq place /\ leaves = 1
<1>1. PartDone("pki")
  <2>1. Work(Stages[2]) = <<"pki">>
    BY DEF Work, OrgWork, Stages
  <2>2. Len(Work(Stages[2])) = 1
    BY <2>1
  <2>3. PartDone(Work(Stages[2])[1])
    BY <2>2
  <2>. QED  BY <2>1, <2>3
<1>2. PartDone("axiam")
  <2>1. Work(Stages[3]) = <<"axiam">>
    BY DEF Work, OrgWork, Stages
  <2>2. Len(Work(Stages[3])) = 1
    BY <2>1
  <2>3. PartDone(Work(Stages[3])[1])
    BY <2>2
  <2>. QED  BY <2>1, <2>3
<1>3. PartDone("org")
  <2>1. Work(Stages[4]) = <<"token", "gate", "creds", "org">>
    BY DEF Work, OrgWork, Stages
  <2>2. Len(Work(Stages[4])) = 4
    BY <2>1
  <2>3. PartDone(Work(Stages[4])[4])
    BY <2>2
  <2>. QED  BY <2>1, <2>3
<1>4. PartDone("tenants") /\ PartDone("admins") /\ PartDone("cas")
  <2>1. Work(Stages[5]) = <<"gate", "tenants", "admins", "truncate", "map", "anchor",
                            "cas", "caPems">>
    BY DEF Work, OrgWork, Stages
  <2>2. Len(Work(Stages[5])) = 8
    BY <2>1
  <2>3. PartDone(Work(Stages[5])[2]) /\ PartDone(Work(Stages[5])[3]) /\ PartDone(Work(Stages[5])[7])
    BY <2>2
  <2>. QED  BY <2>1, <2>3
<1>5. PartDone("certs") /\ PartDone("tree")
  <2>1. Work(Stages[7]) = <<"gate", "keys", "certs", "tree">>
    BY DEF Work, OrgWork, Stages
  <2>2. Len(Work(Stages[7])) = 4
    BY <2>1
  <2>3. PartDone(Work(Stages[7])[3]) /\ PartDone(Work(Stages[7])[4])
    BY <2>2
  <2>. QED  BY <2>1, <2>3
<1>6. PartDone("vhost")
  <2>1. Work(Stages[8]) = <<"gate", "vhost">>
    BY DEF Work, OrgWork, Stages
  <2>2. Len(Work(Stages[8])) = 2
    BY <2>1
  <2>3. PartDone(Work(Stages[8])[2])
    BY <2>2
  <2>. QED  BY <2>1, <2>3
<1>7. PartDone("edge")
  <2>1. Work(Stages[9]) = <<"edge">>
    BY DEF Work, OrgWork, Stages
  <2>2. Len(Work(Stages[9])) = 1
    BY <2>1
  <2>3. PartDone(Work(Stages[9])[1])
    BY <2>2
  <2>. QED  BY <2>1, <2>3
<1>8. PartDone("verified")
  <2>1. Work(Stages[10]) = <<"verified">>
    BY DEF Work, OrgWork, Stages
  <2>2. Len(Work(Stages[10])) = 1
    BY <2>1
  <2>3. PartDone(Work(Stages[10])[1])
    BY <2>2
  <2>. QED  BY <2>1, <2>3
<1>. QED  BY <1>1, <1>2, <1>3, <1>4, <1>5, <1>6, <1>7, <1>8 DEF PartDone, ProbedParts

(***************************************************************************)
(* A run ends well only by marking its last stage.                         *)
(***************************************************************************)
LEMMA DoneByMark ==
  ASSUME RunOK, Next, run'.at = "done"
  PROVE  Mark /\ run.stage = 10
<1>1. ASSUME run.at = "work", Onward PROVE FALSE
  BY <1>1, RunPart DEF Onward, InWork
<1>2. ASSUME NEW how \in {"failed", "refused"}, run' = End(how) PROVE FALSE
  BY <1>2, EndOK
<1>3. ASSUME run' = Begin(run.stage) PROVE FALSE
  BY <1>3 DEF Begin
<1>4. ASSUME run.at \in {"check", "mark"}, run' = After(run.stage), run.stage # 10 PROVE FALSE
  BY <1>4, StageCount DEF After
<1>5. ASSUME NEW volume, Dispatch(volume) PROVE FALSE
  <2>1. run.at = "volumes" /\ run' = [run EXCEPT !.left = run.left \ {volume}]
    BY <1>5 DEF Dispatch
  <2>. QED  BY <2>1 DEF RunOK, AtEnd, InUp, InWork, InReset
<1>6. ~Check
  <2>1. SUFFICES ASSUME Check PROVE FALSE
    OBVIOUS
  <2>2. run.at = "check" /\ run.stage \in 1..10
    BY <2>1, RunStage DEF Check
  <2>3. \/ run' = End("failed")
        \/ Skips(Current) /\ run' = After(run.stage)
        \/ run' = Begin(run.stage)
    BY <2>1 DEF Check
  <2>4. Skips(Current) => run.stage # 10
    BY DEF Skips, Resumable, Current, Stages
  <2>. QED  BY <1>2, <1>3, <1>4, <2>2, <2>3, <2>4
<1>7. ~Ensure /\ ~StartAxiam /\ ~CaptureToken /\ ~TruncateMap /\ ~EnsureKeys /\ ~IssueCert
  BY <1>1 DEF Ensure, StartAxiam, CaptureToken, TruncateMap, EnsureKeys, IssueCert, Working
<1>8. ~PassGate /\ ~PersistCreds /\ ~BootstrapOrg /\ ~Verify
  BY <1>1, <1>2 DEF PassGate, PersistCreds, BootstrapOrg, Verify, Working
<1>9. ASSUME NEW volume \in Volumes PROVE ~RemoveVolume(volume) /\ ~KeepVolume(volume)
  BY <1>5 DEF RemoveVolume, KeepVolume
<1>10. ~ClearMarkers /\ ~ClearMaterial
  BY DEF ClearMarkers, ClearMaterial
<1>11. ~ProbeMisses /\ ~BootstrapUnheard /\ ~Interrupt /\ ~TearCreds
  BY <1>2, <1>3 DEF ProbeMisses, BootstrapUnheard, Interrupt, TearCreds
<1>12. ~CatalogProbeFailsOpen
  <2>1. SUFFICES ASSUME CatalogProbeFailsOpen PROVE FALSE
    OBVIOUS
  <2>2. run.at = "check" /\ run' = After(run.stage) /\ Current = "catalog"
    BY <2>1 DEF CatalogProbeFailsOpen
  <2>3. run.stage # 10
    BY <2>2 DEF Current, Stages
  <2>. QED  BY <1>4, <2>2, <2>3
<1>13. ~Down /\ ~BeginResetInUse /\ ~BeginReset
  BY DEF Down, BeginResetInUse, BeginReset
<1>14. ASSUME NEW failAt \in FailAts PROVE ~Up(failAt)
  BY DEF Up
<1>15. Mark
  BY <1>6, <1>7, <1>8, <1>9, <1>10, <1>11, <1>12, <1>13, <1>14
     DEF Next, Proceed, Disturb, Operate
<1>. QED  BY <1>4, <1>15 DEF Mark

(***************************************************************************)
(* By then the work of all ten stages is behind it, and the credentials    *)
(* are on disk because the organization was not created without them.      *)
(***************************************************************************)
LEMMA DoneProbed == Ready /\ DoneMeansProbed /\ [Next]_vars => DoneMeansProbed'
<1>. SUFFICES ASSUME Ready, DoneMeansProbed, [Next]_vars, run'.at = "done"
              PROVE  gate' = "spent" /\ creds' = "whole" /\ ProbedParts \subseteq place' /\ leaves' = 1
  BY DEF DoneMeansProbed
<1>1. CASE UNCHANGED vars
  BY <1>1 DEF vars, world, DoneMeansProbed
<1>2. CASE Next
  <2>1. Mark /\ run.stage = 10 /\ run.at = "mark" /\ UNCHANGED <<place, gate, creds, leaves>>
    BY <1>2, DoneByMark DEF Ready, Inv, Mark, world
  <2>2. \A j \in 1..10 : \A i \in 1..Len(Work(Stages[j])) : Past(j, i)
    BY <2>1 DEF Past
  <2>3. gate = "spent" /\ ProbedParts \subseteq place /\ leaves = 1
    BY <2>1, <2>2, AllProbed DEF Ready, Solid
  <2>4. creds = "whole"
    BY <2>3 DEF Ready, Inv, NeverLockedOut
  <2>. QED  BY <2>1, <2>3, <2>4
<1>. QED  BY <1>1, <1>2

(***************************************************************************)
(* When `up' says it is done, all that a probe looks at is there and every *)
(* service account has one certificate, of the keypair on disk, however    *)
(* the runs and resets before it ended (StageRunner.DoneMeansProbed).      *)
(***************************************************************************)
THEOREM ProbedWhenDone == Spec => []DoneMeansProbed
<1>1. Init => DoneMeansProbed
  BY DEF Init, DoneMeansProbed
<1>. QED  BY <1>1, ReadyInit, ReadyNext, DoneProbed, PTL DEF Spec
=============================================================================
