-------------------------- MODULE ContextStoreProofs --------------------------
(***************************************************************************)
(* Theorems about ContextStore, for any number of goroutines and failures. *)
(***************************************************************************)
EXTENDS ContextStore, TLAPS

\* A goroutine that is about to store an answer of the daemon has one.
AnswerHeld == \A g \in Goroutines : pc[g] = "setinfo" => answer[g] # None

\* The failures there have been.
Spent == Bounds["fault"] - left["fault"]

\* What the failures have to do with the goroutines that found nothing: one
\* that has yet to inspect its own container has been through all but one of
\* the failures it takes, one that has nothing to store through all of them.
Failed ==
  /\ Spent >= 0
  /\ \A g \in Goroutines :
       /\ pc[g] = "current" /\ found[g] = None => Spent >= FailuresToHide - 1
       /\ pc[g] = "setcurrent" /\ found[g] = None => Spent >= FailuresToHide

StoreInv ==
  /\ StoreTypeOK /\ AnswerHeld
  /\ IdComesBack
  /\ Failed /\ CurrentAvailable

-------------------------------------------------------------------------------
LEMMA GotoType ==
  ASSUME StoreTypeOK, NEW g \in Goroutines, NEW point \in Points, Goto(g, point)
  PROVE  /\ pc' \in [Goroutines -> Points]
         /\ pc'[g] = point
         /\ \A h \in Goroutines : h # g => pc'[h] = pc[h]
BY DEF StoreTypeOK, Goto

LEMMA SpendType ==
  ASSUME StoreTypeOK, NEW what \in Limited, Spend(what)
  PROVE  /\ left' \in [Limited -> Nat]
         /\ left'[what] = left[what] - 1
         /\ \A other \in Limited : other # what => left'[other] = left[other]
BY DEF StoreTypeOK, Spend

\* A failure costs one of those that are left, and nothing else costs any.
LEMMA FaultSpent ==
  ASSUME StoreTypeOK
  PROVE  /\ Spent \in Int /\ Bounds["fault"] \in Nat
         /\ Spend("fault") => left' \in [Limited -> Nat] /\ Spent' = Spent + 1
         /\ Spend("change") => left' \in [Limited -> Nat] /\ Spent' = Spent
         /\ UNCHANGED left => left' \in [Limited -> Nat] /\ Spent' = Spent
<1>1. left["fault"] \in Nat /\ Bounds["fault"] \in Nat
  BY StoreAssumption DEF StoreTypeOK, Limited
<1>2. Spend("fault") => left' \in [Limited -> Nat] /\ Spent' = Spent + 1
  BY <1>1, SpendType DEF Spent, Limited
<1>3. Spend("change") => left' \in [Limited -> Nat] /\ Spent' = Spent
  BY <1>1, SpendType DEF Spent, Limited
<1>4. UNCHANGED left => left' \in [Limited -> Nat] /\ Spent' = Spent
  BY DEF Spent, StoreTypeOK
<1> QED
  BY <1>1, <1>2, <1>3, <1>4 DEF Spent

\* With nobody in its way from SetServerInfo to SetCurrentContainerID before,
\* and no change of the ID, nothing is lost.
LEMMA IdKept ==
  ASSUME IdComesBack, known' = known, info'.id = info.id,
         \A g \in Goroutines : pc[g] = "setid" => pc'[g] = "setid"
  PROVE  IdComesBack'
BY DEF IdComesBack

LEMMA StoreInvInit == StoreInit => StoreInv
<1> SUFFICES ASSUME StoreInit PROVE StoreInv
  OBVIOUS
<1>1. known \in BOOLEAN
  BY DEF StoreInit
<1>2. StoreTypeOK
  BY <1>1, StoreAssumption DEF StoreInit, StoreTypeOK, Points
<1>3. Spent = 0
  BY StoreAssumption DEF StoreInit, Spent, Limited
<1>4. AnswerHeld /\ IdComesBack /\ Failed /\ CurrentAvailable
  BY <1>3 DEF StoreInit, AnswerHeld, IdComesBack, Failed, CurrentAvailable
<1> QED
  BY <1>2, <1>4 DEF StoreInv

\* Every step of a goroutine keeps the invariant.
LEMMA StoreStep ==
  ASSUME StoreInv, NEW g \in Goroutines, Step(g)
  PROVE  StoreInv'
<1> USE DEF StoreInv
<1>f. FailuresToHide \in {1, 2}
  BY DEF FailuresToHide
<1>s. /\ Spent \in Int /\ Bounds["fault"] \in Nat
      /\ Spend("fault") => left' \in [Limited -> Nat] /\ Spent' = Spent + 1
      /\ UNCHANGED left => left' \in [Limited -> Nat] /\ Spent' = Spent
  BY FaultSpent
<1>a. CurrentAvailable <=> ((\E h \in Goroutines : pc[h] = "template")
                            /\ current = None => Spent >= FailuresToHide)
  BY DEF CurrentAvailable, Spent
<1>b. CurrentAvailable' <=> ((\E h \in Goroutines : pc'[h] = "template")
                             /\ current' = None => Spent' >= FailuresToHide)
  BY DEF CurrentAvailable, Spent, FailuresToHide
<1>c. Failed' <=> /\ Spent' >= 0
                  /\ \A h \in Goroutines :
                       /\ pc'[h] = "current" /\ found'[h] = None
                            => Spent' >= FailuresToHide - 1
                       /\ pc'[h] = "setcurrent" /\ found'[h] = None
                            => Spent' >= FailuresToHide
  BY DEF Failed, FailuresToHide

\* What a step to a point other than "template" leaves alone.
<1>k. ASSUME NEW point \in Points \ {"template"}, Goto(g, point),
             current' = current, Spent' \in {Spent, Spent + 1}
      PROVE  CurrentAvailable'
  <2>1. \A h \in Goroutines : pc'[h] = "template" => pc[h] = "template"
    BY <1>k, GotoType
  <2> QED
    BY <1>k, <1>s, <1>f, <1>a, <1>b, <2>1
<1>l. ASSUME NEW point \in Points, Goto(g, point),
             \A h \in Goroutines : h # g => found'[h] = found[h],
             Spent' \in {Spent, Spent + 1},
             point = "current" /\ found'[g] = None
               => Spent' >= FailuresToHide - 1,
             point = "setcurrent" /\ found'[g] = None
               => Spent' >= FailuresToHide
      PROVE  Failed'
  <2>1. pc'[g] = point /\ \A h \in Goroutines : h # g => pc'[h] = pc[h]
    BY <1>l, GotoType
  <2>2. ASSUME NEW h \in Goroutines, h # g
        PROVE  /\ pc'[h] = "current" /\ found'[h] = None
                    => Spent' >= FailuresToHide - 1
               /\ pc'[h] = "setcurrent" /\ found'[h] = None
                    => Spent' >= FailuresToHide
    BY <1>l, <1>s, <1>f, <2>1, <2>2 DEF Failed
  <2>3. Spent' >= 0
    BY <1>l, <1>s DEF Failed
  <2> QED
    BY <1>l, <1>c, <2>1, <2>2, <2>3
<1>m. ASSUME NEW point \in Points \ {"setinfo"}, Goto(g, point),
             \A h \in Goroutines : h # g => answer'[h] = answer[h]
      PROVE  AnswerHeld'
  BY <1>m, GotoType DEF AnswerHeld
<1>1. CASE Start(g)
  <2>1. Goto(g, "info") /\ pc[g] = "idle" /\ Spent' = Spent
    BY <1>1, <1>s DEF Start
  <2>2. pc' \in [Goroutines -> Points] /\ IdComesBack'
    BY <1>1, <2>1, GotoType, IdKept DEF Start, Points
  <2>3. AnswerHeld' /\ CurrentAvailable' /\ Failed'
    BY <1>1, <1>k, <1>l, <1>m, <2>1 DEF Start, Points
  <2> QED
    BY <1>1, <2>2, <2>3 DEF StoreTypeOK, Start
<1>2. CASE Info(g)
  <2>1. /\ pc[g] = "info"
        /\ \E point \in {"setinfo", "setid"} : Goto(g, point)
        /\ Spent' \in {Spent, Spent + 1}
        /\ left' \in [Limited -> Nat]
        /\ answer' \in [Goroutines -> Nat \cup {None}]
        /\ \A h \in Goroutines : h # g => answer'[h] = answer[h]
    BY <1>2, <1>s DEF Info, StoreTypeOK
  <2>2. pc' \in [Goroutines -> Points] /\ IdComesBack'
    BY <1>2, <2>1, GotoType, IdKept DEF Info, Points
  <2>3. AnswerHeld'
    <3>1. CASE Goto(g, "setinfo") /\ answer' = [answer EXCEPT ![g] = server]
      <4>1. answer'[g] # None
        BY <3>1 DEF StoreTypeOK, None
      <4> QED
        BY <2>1, <3>1, <4>1, GotoType DEF AnswerHeld, Points
    <3>2. CASE Goto(g, "setid")
      BY <1>m, <2>1, <3>2 DEF Points
    <3> QED
      BY <1>2, <3>1, <3>2 DEF Info
  <2>4. CurrentAvailable' /\ Failed'
    BY <1>2, <1>k, <1>l, <2>1 DEF Info, Points
  <2> QED
    BY <1>2, <2>1, <2>2, <2>3, <2>4 DEF StoreTypeOK, Info
<1>3. CASE SetServerInfo(g)
  <2>1. /\ Goto(g, "setid") /\ Spent' = Spent
        /\ answer[g] \in Nat
        /\ answer' \in [Goroutines -> Nat \cup {None}]
        /\ \A h \in Goroutines : h # g => answer'[h] = answer[h]
    BY <1>3, <1>s DEF SetServerInfo, StoreTypeOK, AnswerHeld
  <2>2. pc' \in [Goroutines -> Points] /\ pc'[g] = "setid"
    BY <2>1, GotoType DEF Points
  <2>3. IdComesBack'
    BY <2>2 DEF IdComesBack
  <2>4. AnswerHeld' /\ CurrentAvailable' /\ Failed'
    BY <1>3, <1>k, <1>l, <1>m, <2>1 DEF SetServerInfo, Points
  <2>5. info' \in [server : Nat, id : {Self, NoID}]
    BY <1>3, <2>1 DEF SetServerInfo
  <2> QED
    BY <1>3, <2>1, <2>2, <2>3, <2>4, <2>5 DEF StoreTypeOK, SetServerInfo
<1>4. CASE SetCurrentContainerID(g)
  <2>1. Goto(g, "list") /\ Spent' = Spent
    BY <1>4, <1>s DEF SetCurrentContainerID
  <2>2. info' \in [server : Nat, id : {Self, NoID}] /\ info'.id = Self
    BY <1>4 DEF SetCurrentContainerID, StoreTypeOK
  <2>3. IdComesBack'
    BY <2>2, StoreAssumption DEF IdComesBack
  <2>4. pc' \in [Goroutines -> Points]
    BY <2>1, GotoType DEF Points
  <2>5. AnswerHeld' /\ CurrentAvailable' /\ Failed'
    BY <1>4, <1>k, <1>l, <1>m, <2>1 DEF SetCurrentContainerID, Points
  <2>6. known' \in BOOLEAN
    BY <1>4 DEF SetCurrentContainerID
  <2> QED
    BY <1>4, <2>2, <2>3, <2>4, <2>5, <2>6 DEF StoreTypeOK, SetCurrentContainerID
<1>5. CASE List(g)
  <2>1. /\ pc[g] = "list"
        /\ found' \in [Goroutines -> Nat \cup {None}]
        /\ \A h \in Goroutines : h # g => found'[h] = found[h]
        /\ left' \in [Limited -> Nat]
        /\ Spent' \in {Spent, Spent + 1}
    BY <1>5, <1>s DEF List, StoreTypeOK
  <2>2. Spent >= 0
    BY DEF Failed
  <2>3. \E point \in {"current", "idle"} :
          /\ Goto(g, point)
          /\ point = "current" /\ found'[g] = None
               => Spent' >= FailuresToHide - 1
    <3>1. CASE /\ found' = [found EXCEPT ![g] = IF g \in HidesSelf THEN None
                                               ELSE own]
               /\ Goto(g, "current") /\ UNCHANGED left
      <4>1. found'[g] = None => FailuresToHide = 1
        BY <3>1 DEF StoreTypeOK, None, FailuresToHide
      <4> QED
        BY <3>1, <4>1, <2>2, <1>s
    <3>2. CASE Spend("fault") /\ (Goto(g, "idle") \/ Goto(g, "current"))
      <4>1. Spent' >= FailuresToHide - 1
        BY <3>2, <2>2, <1>s, <1>f
      <4> QED
        BY <3>2, <4>1
    <3> QED
      BY <1>5, <3>1, <3>2 DEF List
  <2>4. pc' \in [Goroutines -> Points] /\ IdComesBack'
    BY <1>5, <2>1, <2>3, GotoType, IdKept DEF List, Points
  <2>5. UNCHANGED <<answer, current>>
    BY <1>5 DEF List
  <2>6. PICK point \in {"current", "idle"} :
          /\ Goto(g, point)
          /\ point = "current" /\ found'[g] = None
               => Spent' >= FailuresToHide - 1
    BY <2>3
  <2>7. AnswerHeld' /\ CurrentAvailable'
    BY <1>k, <1>m, <2>1, <2>5, <2>6 DEF Points
  <2>8. Failed'
    BY <1>l, <2>1, <2>6 DEF Points
  <2> QED
    BY <1>5, <2>1, <2>4, <2>7, <2>8 DEF StoreTypeOK, List
<1>6. CASE CurrentContainer(g)
  <2>1. /\ pc[g] = "current" /\ Goto(g, "setcurrent")
        /\ found' \in [Goroutines -> Nat \cup {None}]
        /\ \A h \in Goroutines : h # g => found'[h] = found[h]
        /\ left' \in [Limited -> Nat]
        /\ Spent' \in {Spent, Spent + 1}
    BY <1>6, <1>s DEF CurrentContainer, StoreTypeOK
  <2>2. found'[g] = None => Spent' >= FailuresToHide
    <3> SUFFICES ASSUME found'[g] = None PROVE Spent' >= FailuresToHide
      OBVIOUS
    <3>1. found[g] = None /\ Spend("fault")
      BY <1>6 DEF CurrentContainer, StoreTypeOK, None
    <3>2. Spent >= FailuresToHide - 1
      BY <2>1, <3>1 DEF Failed
    <3> QED
      BY <3>1, <3>2, <1>s, <1>f
  <2>3. pc' \in [Goroutines -> Points] /\ IdComesBack'
    BY <1>6, <2>1, GotoType, IdKept DEF CurrentContainer, Points
  <2>4. AnswerHeld' /\ CurrentAvailable' /\ Failed'
    BY <1>6, <1>k, <1>l, <1>m, <2>1, <2>2 DEF CurrentContainer, Points
  <2> QED
    BY <1>6, <2>1, <2>3, <2>4 DEF StoreTypeOK, CurrentContainer
<1>7. CASE SetCurrentContainer(g)
  <2>1. /\ pc[g] = "setcurrent" /\ Goto(g, "template") /\ Spent' = Spent
        /\ current' = found[g] /\ current' \in Nat \cup {None}
        /\ found' \in [Goroutines -> Nat \cup {None}]
        /\ \A h \in Goroutines : h # g => found'[h] = found[h]
    BY <1>7, <1>s DEF SetCurrentContainer, StoreTypeOK
  <2>2. pc' \in [Goroutines -> Points] /\ IdComesBack'
    BY <1>7, <2>1, GotoType, IdKept DEF SetCurrentContainer, Points
  <2>3. AnswerHeld' /\ Failed'
    BY <1>7, <1>l, <1>m, <2>1 DEF SetCurrentContainer, Points
  <2>4. CurrentAvailable'
    BY <1>b, <2>1 DEF Failed
  <2> QED
    BY <1>7, <2>1, <2>2, <2>3, <2>4 DEF StoreTypeOK, SetCurrentContainer
<1>8. CASE Done(g)
  <2>1. pc[g] = "template" /\ Goto(g, "idle") /\ Spent' = Spent
    BY <1>8, <1>s DEF Done
  <2>2. pc' \in [Goroutines -> Points] /\ IdComesBack'
    BY <1>8, <2>1, GotoType, IdKept DEF Done, Points
  <2>3. AnswerHeld' /\ CurrentAvailable' /\ Failed'
    BY <1>8, <1>k, <1>l, <1>m, <2>1 DEF Done, Points
  <2> QED
    BY <1>8, <2>2, <2>3 DEF StoreTypeOK, Done
<1> QED
  BY <1>1, <1>2, <1>3, <1>4, <1>5, <1>6, <1>7, <1>8 DEF Step

LEMMA StoreInvNext == StoreInv /\ [StoreNext]_storeVars => StoreInv'
<1> SUFFICES ASSUME StoreInv, [StoreNext]_storeVars PROVE StoreInv'
  OBVIOUS
<1>1. CASE Change
  <2>1. left' \in [Limited -> Nat] /\ Spent' = Spent
    BY <1>1, FaultSpent DEF Change, StoreInv
  <2>2. StoreTypeOK' /\ AnswerHeld' /\ IdComesBack'
    BY <1>1, <2>1 DEF Change, StoreInv, StoreTypeOK, AnswerHeld, IdComesBack
  <2>3. Failed' /\ CurrentAvailable'
    BY <1>1, <2>1
    DEF Change, StoreInv, Failed, CurrentAvailable, FailuresToHide, Spent
  <2> QED
    BY <2>2, <2>3 DEF StoreInv
<1>2. ASSUME NEW g \in Goroutines, Step(g)
      PROVE  StoreInv'
  BY <1>2, StoreStep
<1>3. CASE UNCHANGED storeVars
  BY <1>3 DEF storeVars, StoreInv, StoreTypeOK, AnswerHeld, IdComesBack, Failed,
              CurrentAvailable, FailuresToHide, Spent
<1> QED
  BY <1>1, <1>2, <1>3 DEF StoreNext

-------------------------------------------------------------------------------
\* The variables of the package keep their types; in particular SetServerInfo
\* never stores a missing answer.
THEOREM TypeCorrect == StoreSpec => []StoreTypeOK
<1>1. StoreInv => StoreTypeOK
  BY DEF StoreInv
<1> QED
  BY <1>1, StoreInvInit, StoreInvNext, PTL DEF StoreSpec

\* However many passes interleave, the CurrentContainerID that SetServerInfo
\* clears is stored again.
THEOREM IdReturns == StoreSpec => []IdComesBack
<1>1. StoreInv => IdComesBack
  BY DEF StoreInv
<1> QED
  BY <1>1, StoreInvInit, StoreInvNext, PTL DEF StoreSpec

\* A template misses .CurrentContainer only after as many failed calls as it
\* takes.
THEOREM CurrentStaysAvailable == StoreSpec => []CurrentAvailable
<1>1. StoreInv => CurrentAvailable
  BY DEF StoreInv
<1> QED
  BY <1>1, StoreInvInit, StoreInvNext, PTL DEF StoreSpec
===============================================================================
