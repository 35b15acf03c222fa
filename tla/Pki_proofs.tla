----------------------------- MODULE Pki_proofs ------------------------------
(***************************************************************************)
(* Proofs about the offline PKI for any listeners, and any number of       *)
(* rotations and interruptions.                                            *)
(***************************************************************************)
EXTENDS Pki, TLAPS

\* The listeners are distinct, and numbered from 1.
LEMMA Bounds ==
  /\ Len(Listeners) \in Nat /\ Len(Listeners) > 0 /\ 1 \in 1..Len(Listeners)
  /\ MaxRoots \in Nat /\ MaxFaults \in Nat
  /\ AtFirst \subseteq Leaves /\ Axiam \in Leaves
  /\ \A k \in 1..Len(Listeners) : Listeners[k] \in Leaves
BY PkiAssumption DEF Leaves

LEMMA Distinct ==
  \A j, k \in 1..Len(Listeners) : Listeners[j] = Listeners[k] => j = k
BY PkiAssumption

\* A leaf stays one when its key or its certificate is replaced.
LEMMA Types ==
  /\ \A r \in Roots, k \in {"none", "new", "matching"} : [cert |-> r, key |-> k] \in Leaf
  /\ \A x \in Leaf : [x EXCEPT !.key = "new"] \in Leaf /\ x.cert \in Roots
  /\ 0 \in Roots /\ NoLeaf \in Leaf
BY Bounds DEF Leaf, Roots, NoLeaf

\* The steps and stages the actions name.
LEMMA Names ==
  /\ {"idle", "issued", "done", "root", "self-sign", "guard", "new-key", "sign", "remove",
      "export", "fingerprint", "check", "compose", "wait", "verify", "card", "markers"}
       \subseteq Steps
  /\ {"pki", "axiam-up", "platform-up"} \subseteq Stages
BY DEF Steps, Ended, Generating, Stages

\* A command stays one when it moves to another step, leaf or stage.
LEMMA CommandAt ==
  \A c \in Command : \A step \in Steps : [c EXCEPT !.at = step] \in Command
BY DEF Command

LEMMA CommandAtLeaf ==
  \A c \in Command : \A step \in Steps, n \in 1..Len(Listeners) :
    [c EXCEPT !.at = step, !.leaf = n] \in Command
BY DEF Command

LEMMA CommandAtStage ==
  \A c \in Command : \A step \in Steps, stage \in Stages :
    [c EXCEPT !.at = step, !.stage = stage] \in Command
BY DEF Command

\* What it is then at.
LEMMA Moved ==
  \A c \in Command : \A step, n :
    /\ [c EXCEPT !.at = step].at = step /\ [c EXCEPT !.at = step].stage = c.stage
    /\ [c EXCEPT !.at = step].leaf = c.leaf
    /\ [c EXCEPT !.at = step, !.leaf = n].at = step
    /\ [c EXCEPT !.at = step, !.leaf = n].leaf = n
    /\ [c EXCEPT !.at = step, !.stage = n].at = step
    /\ [c EXCEPT !.at = step, !.stage = n].stage = n
BY DEF Command

\* The operator starts a command at the first leaf and the first stage.
LEMMA Started ==
  \A step \in Steps, by \in {"pki", "export", "rotate", "up"} :
    [at |-> step, by |-> by, leaf |-> 1, stage |-> "pki"] \in Command
BY Bounds, Names DEF Command

\* There is a next leaf unless it is the last.
LEMMA Fields ==
  \A c \in Command :
    /\ c.stage \in Stages /\ c.leaf \in 1..Len(Listeners)
    /\ c.leaf < Len(Listeners) => c.leaf + 1 \in 1..Len(Listeners)
BY Bounds DEF Command

(***************************************************************************)
(* Every state a command can be cut short in is of the right type.         *)
(***************************************************************************)
THEOREM TypeCorrect == Spec => []TypeOK
<1> USE Bounds, Types, Names DEF TypeOK
<1>1. Init => TypeOK
  <2> SUFFICES ASSUME Init PROVE TypeOK
    OBVIOUS
  <2>1. cmd \in Command
    BY Started DEF Init
  <2>2. leaf \in [Leaves -> Leaf] /\ volume \in [Leaves -> Leaf] /\ serving \in [Leaves -> Roots]
    BY DEF Init
  <2>3. trust \in [pem : Roots, sum : Roots]
    BY DEF Init
  <2>4. guard \in BOOLEAN
    BY DEF Init
  <2>6. faults \in 0..MaxFaults
    BY DEF Init
  <2>5. markers \subseteq Stages
    BY DEF Init
  <2> QED
    BY <2>1, <2>2, <2>3, <2>4, <2>5, <2>6 DEF Init
<1>2. TypeOK /\ [Next]_vars => TypeOK'
  <2> SUFFICES ASSUME TypeOK, [Next]_vars PROVE TypeOK'
    OBVIOUS
  <2> USE DEF At, Goto, Fail, root, published
  <2>1. CASE Reuse
    BY <2>1, CommandAtLeaf DEF Reuse
  <2>2. CASE RefuseHalf
    BY <2>2, CommandAt DEF RefuseHalf
  <2>3. CASE NewRoot
    BY <2>3, CommandAt DEF NewRoot, Roots
  <2>4. CASE SelfSign
    BY <2>4, CommandAt DEF SelfSign
  <2>5. CASE WriteGuard
    BY <2>5, CommandAtLeaf DEF WriteGuard
  <2>6. CASE NewKey
    BY <2>6, CommandAt DEF NewKey
  <2>7. CASE Sign
    <3>1. cmd' \in Command
      BY <2>7, CommandAtLeaf, Fields DEF Sign, Then
    <3>2. leaf' \in [Leaves -> Leaf]
      BY <2>7 DEF Sign
    <3> QED
      BY <2>7, <3>1, <3>2 DEF Sign
  <2>8. CASE Remove
    BY <2>8 DEF Remove
  <2>9. CASE Removed
    BY <2>9, CommandAt DEF Removed
  <2>10. CASE Export
    BY <2>10, CommandAt DEF Export
  <2>11. CASE Fingerprint
    <3>1. cmd' \in Command
      <4>1. CASE cmd.by = "up"
        <5>1. [cmd EXCEPT !.at = "check", !.stage = "axiam-up"] \in Command
          BY CommandAtStage
        <5> QED
          BY <2>11, <4>1, <5>1 DEF Fingerprint
      <4>2. CASE cmd.by # "up"
        BY <2>11, <4>2, CommandAt DEF Fingerprint
      <4> QED
        BY <4>1, <4>2
    <3>2. trust' \in [pem : Roots, sum : Roots]
      BY <2>11 DEF Fingerprint
    <3> QED
      BY <2>11, <3>1, <3>2 DEF Fingerprint
  <2>12. CASE Check
    <3>1. After(cmd.stage) \in Command
      BY CommandAt, CommandAtStage, Fields DEF After
    <3> QED
      BY <2>12, <3>1, CommandAt DEF Check
  <2>13. CASE Compose
    BY <2>13, CommandAt DEF Compose
  <2>14. CASE Wait
    <3>1. cmd' \in Command
      <4>1. After(cmd.stage) \in Command
        BY CommandAt, CommandAtStage, Fields DEF After
      <4>2. [cmd EXCEPT !.at = "idle"] \in Command
        BY CommandAt
      <4> QED
        BY <2>14, <4>1, <4>2 DEF Wait
    <3>2. markers' \subseteq Stages
      BY <2>14, Fields DEF Wait
    <3> QED
      BY <2>14, <3>1, <3>2 DEF Wait
  <2>15. CASE WriteCard
    BY <2>15, CommandAt DEF WriteCard
  <2>16. CASE Operate
    BY <2>16, Started DEF Operate, Begin
  <2>17. CASE Down
    BY <2>17, CommandAt DEF Down, Stopped
  <2>18. CASE Reset
    BY <2>18, Started DEF Reset, Begin, Stopped
  <2>19. CASE ClearMarkers
    BY <2>19, CommandAtStage DEF ClearMarkers
  <2>20. CASE Repair
    BY <2>20, CommandAt DEF Repair
  <2>21. CASE Interrupt
    BY <2>21, CommandAt DEF Interrupt
  <2>22. CASE Recreate
    <3>1. \A l \in Leaves : volume[l].cert \in Roots
      OBVIOUS
    <3> QED
      BY <2>22, <3>1 DEF Recreate
  <2>23. CASE AuthzVerify
    BY <2>23, CommandAt DEF AuthzVerify
  <2>24. CASE UNCHANGED vars
    BY <2>24 DEF vars
  <2> QED
    BY <2>1, <2>2, <2>3, <2>4, <2>5, <2>6, <2>7, <2>8, <2>9, <2>10, <2>11, <2>12, <2>13,
       <2>14, <2>15, <2>16, <2>17, <2>18, <2>19, <2>20, <2>21, <2>22, <2>23, <2>24 DEF Next
<1> QED
  BY <1>1, <1>2, PTL DEF Spec

-----------------------------------------------------------------------------
\* Where a command goes from the steps that have a choice.
LEMMA ExportGoes ==
  ASSUME TypeOK, Export
  PROVE  cmd'.at \in {"idle", "fingerprint"}
<1>1. cmd' \in {[cmd EXCEPT !.at = "idle"], [cmd EXCEPT !.at = "fingerprint"]}
  BY DEF Export, Goto, Fail
<1> QED
  BY <1>1 DEF TypeOK, Command

LEMMA FingerprintGoes ==
  ASSUME TypeOK, Fingerprint
  PROVE  cmd'.at = "idle" \/ (cmd'.at = "check" /\ cmd'.stage = "axiam-up")
<1>1. cmd' \in {[cmd EXCEPT !.at = "idle"], [cmd EXCEPT !.at = "check", !.stage = "axiam-up"]}
  BY DEF Fingerprint, Goto, Fail
<1> QED
  BY <1>1 DEF TypeOK, Command

LEMMA AfterGoes ==
  ASSUME TypeOK
  PROVE  LET next == After(cmd.stage)
         IN  \/ cmd.stage = "platform-up" /\ next.at = "verify"
             \/ cmd.stage = "axiam-up" /\ next.at = "check" /\ next.stage = "platform-up"
             \/ cmd.stage = "pki" /\ next.at = "check" /\ next.stage = "axiam-up"
BY DEF TypeOK, Command, After, Stages

LEMMA WaitGoes ==
  ASSUME TypeOK, Wait
  PROVE  \/ cmd'.at = "idle"
         \/ cmd.stage = "platform-up" /\ cmd'.at = "verify"
         \/ cmd.stage = "axiam-up" /\ cmd'.at = "check"
         \/ cmd.stage = "pki" /\ cmd'.at = "check" /\ cmd'.stage = "axiam-up"
<1>1. CASE cmd' = [cmd EXCEPT !.at = "idle"]
  BY <1>1 DEF TypeOK, Command
<1>2. CASE cmd' = After(cmd.stage)
  BY <1>2, AfterGoes
<1> QED
  BY <1>1, <1>2 DEF Wait, Goto, Fail

LEMMA VerifyGoes ==
  ASSUME TypeOK, AuthzVerify
  PROVE  cmd'.at = "idle" \/ (cmd'.at = "card" /\ Answers(Axiam, pem))
<1>1. CASE cmd' = [cmd EXCEPT !.at = "idle"]
  BY <1>1 DEF TypeOK, Command
<1>2. CASE cmd' = [cmd EXCEPT !.at = "card"] /\ Answers(Axiam, pem)
  BY <1>2 DEF TypeOK, Command
<1> QED
  BY <1>1, <1>2 DEF AuthzVerify, Goto, Fail

LEMMA CheckGoes ==
  ASSUME TypeOK, Check
  PROVE  \/ cmd'.at \in {"root", "compose"} /\ cmd'.stage = cmd.stage
            /\ (cmd.stage = "pki" <=> cmd'.at = "root")
         \/ cmd.stage = "platform-up" /\ cmd'.at = "verify"
         \/ cmd.stage = "axiam-up" /\ cmd'.at = "check"
         \/ cmd.stage = "pki" /\ cmd'.at = "check" /\ cmd'.stage = "axiam-up"
<1>1. CASE cmd' = [cmd EXCEPT !.at = IF cmd.stage = "pki" THEN "root" ELSE "compose"]
  BY <1>1 DEF TypeOK, Command
<1>2. CASE cmd' = After(cmd.stage)
  BY <1>2, AfterGoes
<1> QED
  BY <1>1, <1>2 DEF Check

(***************************************************************************)
(* What makes the invariants inductive: a new key is made only where there *)
(* is no certificate, the leaves behind the loop are pairs beneath the root*)
(* on disk, and once verified AXIAM answers beneath that root.             *)
(***************************************************************************)
Chained(l) == leaf[l] = [cert |-> pem, key |-> "matching"]

Signing == At("self-sign") => pem = 0

Issuing ==
  /\ At("new-key") \/ At("sign") => \A k \in 1..(cmd.leaf - 1) : Chained(Listeners[k])
  /\ At("issued") => \A l \in Leaves : Chained(l)

Answering == At("card") \/ At("done") => Answers(Axiam, pem)

(***************************************************************************)
(* The key and the certificate on disk are never of two roots.             *)
(***************************************************************************)
THEOREM OneRootCorrect == Spec => []OneRootAtATime
<1> USE DEF OneRootAtATime
<1>1. Init => OneRootAtATime
  BY DEF Init
<1>2. OneRootAtATime /\ [Next]_vars => OneRootAtATime'
  <2> SUFFICES ASSUME OneRootAtATime, [Next]_vars PROVE OneRootAtATime'
    OBVIOUS
  <2>1. CASE NewRoot
    BY <2>1 DEF NewRoot, Half
  <2>2. CASE SelfSign
    BY <2>2 DEF SelfSign
  <2>3. CASE Remove
    BY <2>3 DEF Remove
  <2>4. CASE Repair
    BY <2>4 DEF Repair
  <2>5. CASE UNCHANGED <<key, pem>>
    BY <2>5
  <2> QED
    BY <2>1, <2>2, <2>3, <2>4, <2>5 DEF Next, vars, root, Reuse, RefuseHalf, WriteGuard, NewKey,
       Sign, Removed, Export, Fingerprint, Check, Compose, Wait, Recreate, AuthzVerify, WriteCard,
       Operate, Down,
       Reset, ClearMarkers, Interrupt
<1> QED
  BY <1>1, <1>2, PTL DEF Spec

(***************************************************************************)
(* Nothing but a rotation takes a complete root away (D-10).               *)
(***************************************************************************)
THEOREM RootKeptCorrect == Spec => RootKept
<1>1. Init => Signing
  BY DEF Init, Signing, At
<1>2. TypeOK /\ Signing /\ [Next]_vars => Signing'
  <2> SUFFICES ASSUME TypeOK, Signing, [Next]_vars PROVE Signing'
    OBVIOUS
  <2> USE Moved DEF Signing, At, Goto, Fail, TypeOK
  <2>1. CASE NewRoot
    BY <2>1 DEF NewRoot, Half
  <2>2. CASE Remove
    BY <2>2 DEF Remove
  <2>3. CASE Reuse
    BY <2>3 DEF Reuse
  <2>4. CASE RefuseHalf
    BY <2>4 DEF RefuseHalf
  <2>5. CASE SelfSign
    BY <2>5 DEF SelfSign
  <2>6. CASE WriteGuard
    BY <2>6 DEF WriteGuard
  <2>7. CASE NewKey
    BY <2>7 DEF NewKey
  <2>8. CASE Sign
    BY <2>8 DEF Sign, Then
  <2>9. CASE Removed
    BY <2>9 DEF Removed
  <2>10. CASE Export
    BY <2>10, ExportGoes DEF Export
  <2>11. CASE Fingerprint
    BY <2>11, FingerprintGoes DEF Fingerprint
  <2>12. CASE Check
    BY <2>12, CheckGoes DEF Check
  <2>13. CASE Compose
    BY <2>13 DEF Compose
  <2>14. CASE Wait
    BY <2>14, WaitGoes DEF Wait
  <2>15. CASE WriteCard
    BY <2>15 DEF WriteCard
  <2>16. CASE Operate
    BY <2>16 DEF Operate, Begin
  <2>17. CASE Down
    BY <2>17 DEF Down
  <2>18. CASE Reset
    BY <2>18 DEF Reset, Begin
  <2>19. CASE ClearMarkers
    BY <2>19 DEF ClearMarkers
  <2>20. CASE Repair
    BY <2>20 DEF Repair
  <2>21. CASE Interrupt
    BY <2>21 DEF Interrupt
  <2>22. CASE Recreate
    BY <2>22 DEF Recreate
  <2>23. CASE AuthzVerify
    BY <2>23, VerifyGoes DEF AuthzVerify
  <2>24. CASE UNCHANGED vars
    BY <2>24 DEF vars, root
  <2> QED
    BY ONLY [Next]_vars, <2>1, <2>2, <2>3, <2>4, <2>5, <2>6, <2>7, <2>8, <2>9, <2>10, <2>11,
       <2>12, <2>13, <2>14, <2>15, <2>16, <2>17, <2>18, <2>19, <2>20, <2>21, <2>22, <2>23, <2>24
       DEF Next
<1>3. Signing /\ [Next]_vars => [Complete /\ ~At("remove") => UNCHANGED <<key, pem, guard>>]_vars
  <2> SUFFICES ASSUME Signing, Next, Complete, ~At("remove")
               PROVE  UNCHANGED <<key, pem, guard>>
    OBVIOUS
  <2> USE DEF Complete, At, root, Signing
  <2>1. CASE NewRoot \/ SelfSign \/ WriteGuard \/ Remove \/ Removed \/ Repair
    BY <2>1 DEF NewRoot, SelfSign, WriteGuard, Remove, Removed, Repair
  <2>2. CASE ~(NewRoot \/ SelfSign \/ WriteGuard \/ Remove \/ Removed \/ Repair)
    BY <2>2 DEF Next, Reuse, RefuseHalf, NewKey, Sign, Export, Fingerprint, Check, Compose,
       Wait, Recreate, AuthzVerify, WriteCard, Operate, Down, Reset, ClearMarkers, Interrupt
  <2> QED
    BY <2>1, <2>2
<1> QED
  BY <1>1, <1>2, <1>3, TypeCorrect, PTL DEF Spec, RootKept

(***************************************************************************)
(* A command that issues the leaves and ends well left every one of them a *)
(* pair beneath the root on disk, and an `up' left AXIAM answering beneath *)
(* it.                                                                     *)
(***************************************************************************)
THEOREM ChainedCorrect == Spec => []DoneMeansChained
<1> DEFINE IInv == Issuing /\ Answering
<1>1. Init => IInv
  BY DEF Init, Issuing, Answering, At
<1>2. TypeOK /\ IInv /\ [Next]_vars => IInv'
  <2> SUFFICES ASSUME TypeOK, IInv, [Next]_vars PROVE IInv'
    OBVIOUS
  <2> USE Moved, Fields, Bounds DEF Issuing, Answering, Chained, Answers, At, Goto, Fail,
        TypeOK, root, published
  <2>1. CASE Reuse
    BY <2>1 DEF Reuse
  <2>2. CASE WriteGuard
    BY <2>2 DEF WriteGuard
  <2>3. CASE RefuseHalf
    BY <2>3 DEF RefuseHalf
  <2>4. CASE NewRoot
    BY <2>4 DEF NewRoot
  <2>5. CASE SelfSign
    BY <2>5 DEF SelfSign
  <2>6. CASE Removed
    BY <2>6 DEF Removed
  <2>7. CASE Remove
    BY <2>7 DEF Remove
  <2>8. CASE NewKey
    <3>1. \A k \in 1..(cmd.leaf - 1) : Listeners[k] # Current
      BY <2>8, Distinct DEF Current
    <3> QED
      BY <2>8, <3>1 DEF NewKey
  <2>9. CASE Sign
    <3>1. \A k \in 1..cmd.leaf : Chained(Listeners[k])'
      BY <2>9, Distinct DEF Sign, Current
    <3>2. CASE cmd.leaf < Len(Listeners)
      BY <2>9, <3>1, <3>2 DEF Sign
    <3>3. CASE cmd.leaf = Len(Listeners)
      <4>1. \A l \in Leaves : Chained(l)'
        BY <3>1, <3>3 DEF Leaves
      <4> QED
        BY <2>9, <3>3, <4>1 DEF Sign, Then
    <3> QED
      BY <3>2, <3>3
  <2>10. CASE Export
    BY <2>10, ExportGoes DEF Export
  <2>11. CASE Fingerprint
    BY <2>11, FingerprintGoes DEF Fingerprint
  <2>12. CASE Check
    BY <2>12, CheckGoes DEF Check
  <2>13. CASE Compose
    BY <2>13 DEF Compose
  <2>14. CASE Wait
    BY <2>14, WaitGoes DEF Wait
  <2>15. CASE WriteCard
    BY <2>15 DEF WriteCard
  <2>16. CASE Operate
    BY <2>16 DEF Operate, Begin
  <2>17. CASE Reset
    BY <2>17 DEF Reset, Begin
  <2>18. CASE Down
    BY <2>18 DEF Down
  <2>19. CASE Repair
    BY <2>19 DEF Repair
  <2>20. CASE Interrupt
    BY <2>20 DEF Interrupt
  <2>21. CASE ClearMarkers
    BY <2>21 DEF ClearMarkers
  <2>22. CASE Recreate
    BY <2>22 DEF Recreate
  <2>23. CASE AuthzVerify
    BY <2>23, VerifyGoes DEF AuthzVerify
  <2>24. CASE UNCHANGED vars
    BY <2>24 DEF vars
  <2> QED
    BY ONLY [Next]_vars, <2>1, <2>2, <2>3, <2>4, <2>5, <2>6, <2>7, <2>8, <2>9, <2>10, <2>11,
       <2>12, <2>13, <2>14, <2>15, <2>16, <2>17, <2>18, <2>19, <2>20, <2>21, <2>22, <2>23, <2>24
       DEF Next
<1>3. IInv => DoneMeansChained
  BY DEF Issuing, Answering, Chained, DoneMeansChained, At
<1> QED
  BY <1>1, <1>2, <1>3, TypeCorrect, PTL DEF Spec
=============================================================================
