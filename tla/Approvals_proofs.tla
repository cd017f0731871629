-------------------------- MODULE Approvals_proofs --------------------------
(***************************************************************************)
(* Proofs about Approvals for every number of strategies, cards, operator  *)
(* requests and automated callers, and any number of forced moves and      *)
(* crashes.                                                                *)
(***************************************************************************)
EXTENDS Approvals, TLAPS

\* A request under way, and a clearing caller, name a card of the table.
Named ==
    /\ \A h \in Operators : op[h].pc # "idle" => op[h].card \in Cards
    /\ \A k \in Askers : asker[k].pc = "clear" => asker[k].card \in Cards

\* A request past its claim holds a card that is decided, and a promotion it
\* holds is not denied: denying needs an undecided card.
HeldDecided ==
    \A h \in Operators : \A i \in Cards : Holds(h, i) =>
        /\ card[i].status \in {"approved", "denied", "revised"}
        /\ card[i].kind = "promotion" => card[i].status # "denied"

\* A promotion that was carried out stays approved, or is revised, and no request
\* can reopen it any more.
AppliedSettled ==
    \A i \in applied : card[i].kind = "promotion" =>
        /\ card[i].status \in {"approved", "revised"}
        /\ \A h \in Operators : ~Holds(h, i)

\* policy only clears dethrone cards: the row it read is not reused meanwhile.
ClearsDethrone ==
    \A k \in Askers : asker[k].pc = "clear" =>
        card[asker[k].card].kind = "dethrone"

TypeInv == TypeOK /\ Named

DecisionInv == ApplyExclusive /\ HeldDecided /\ AppliedSettled /\ ClearsDethrone

-----------------------------------------------------------------------------
(* Types.                                                                  *)

\* The constant rows have their types.
LEMMA Blanks ==
  NoCardRow \in CardType /\ IdleOp \in OpType /\ IdleAsker \in AskerType
  BY DEF NoCardRow, CardType, Statuses, Stages, IdleOp, OpType, IdleAsker, AskerType

\* What update_approval writes is a card.
LEMMA DecidedType ==
  ASSUME card \in [Cards -> CardType], NEW i, NEW s \in Statuses
  PROVE  Decided(i, s) \in [Cards -> CardType]
<1>1. ASSUME i \in Cards
      PROVE  [card[i] EXCEPT !.status = s, !.fresh = (s = "approved")] \in CardType
  BY <1>1 DEF CardType
<1> QED
  BY <1>1 DEF Decided, CardType

\* The initial state is well typed.
LEMMA TypeInit == Init => TypeInv
<1> SUFFICES ASSUME Init PROVE TypeInv
    OBVIOUS
<1>1. TypeOK
  BY Blanks DEF Init, TypeOK, Stages
<1>2. Named
  BY DEF Init, Named, IdleOp, IdleAsker
<1> QED
  BY <1>1, <1>2 DEF TypeInv

\* Every step of a caller of transition_stage, and of policy's clearing, keeps
\* the types.
LEMMA TypeAsker ==
  ASSUME TypeInv, NEW k \in Askers,
         \/ AskerStep(k)
         \/ \E s \in Strategies : AskPromotion(k, s) \/ AskDethrone(k, s)
         \/ \E i \in Cards : ClearRead(k, i)
  PROVE  TypeInv'
<1> USE Blanks DEF TypeInv, AskerUnchanged
<1>1. ASSUME NEW kind \in {"promotion", "dethrone"}, NEW s \in Strategies,
             NEW to \in Stages, Begin(k, kind, s, to)
      PROVE  TypeInv'
  <2> DEFINE a == [IdleAsker EXCEPT !.pc = "find", !.kind = kind, !.target = s, !.to = to]
  <2>1. a \in AskerType /\ a.pc = "find"
    BY DEF AskerType, IdleAsker
  <2>2. asker' \in [Askers -> AskerType]
    BY <1>1, <2>1 DEF Begin, TypeOK
  <2>3. TypeOK'
    BY <1>1, <2>2 DEF Begin, TypeOK
  <2>4. Named'
    BY <1>1, <2>1 DEF Begin, TypeOK, Named
  <2> QED BY <2>3, <2>4
<1>2. CASE \E s \in Strategies : AskPromotion(k, s)
  BY <1>2, <1>1 DEF AskPromotion, Stages
<1>3. CASE \E s \in Strategies : AskDethrone(k, s)
  <2>1. PICK s \in Strategies, to \in Stages : Begin(k, "dethrone", s, to)
    BY <1>3 DEF AskDethrone, Stages, Owned
  <2> QED BY <2>1, <1>1
<1>4. CASE FindActive(k)
  <2> DEFINE a == [asker[k] EXCEPT !.pc = "file"]
  <2>1. a \in AskerType /\ a.pc = "file"
    BY DEF AskerType, TypeOK
  <2>2. asker'[k] \in {IdleAsker, a} /\ asker' = [asker EXCEPT ![k] = asker'[k]]
    BY <1>4 DEF FindActive, TypeOK
  <2>3. asker' \in [Askers -> AskerType]
    BY <2>1, <2>2 DEF TypeOK
  <2>4. TypeOK'
    BY <1>4, <2>3 DEF FindActive, TypeOK
  <2>5. Named'
    BY <1>4, <2>1, <2>2 DEF FindActive, TypeOK, Named, IdleAsker
  <2> QED BY <2>4, <2>5
<1>5. CASE FileCard(k)
  <2>1. PICK i \in Cards :
          /\ card' = [card EXCEPT ![i] =
                [status |-> "pending_approval", kind |-> asker[k].kind,
                 target |-> asker[k].target, to |-> asker[k].to,
                 fresh |-> FALSE]]
          /\ applied' = applied \ {i}
    BY <1>5 DEF FileCard
  <2>2. [status |-> "pending_approval", kind |-> asker[k].kind,
         target |-> asker[k].target, to |-> asker[k].to, fresh |-> FALSE] \in CardType
    BY DEF TypeOK, AskerType, CardType, Statuses
  <2>3. card' \in [Cards -> CardType] /\ applied' \subseteq Cards
    BY <2>1, <2>2 DEF TypeOK
  <2>4. TypeOK'
    BY <1>5, <2>3 DEF FileCard, TypeOK
  <2>5. Named'
    BY <1>5 DEF FileCard, TypeOK, Named, IdleAsker
  <2> QED BY <2>4, <2>5
<1>6. CASE ClearDeny(k)
  <2>1. card' \in [Cards -> CardType]
    BY <1>6, DecidedType DEF ClearDeny, TypeOK, Statuses
  <2>2. TypeOK'
    BY <1>6, <2>1 DEF ClearDeny, TypeOK
  <2>3. Named'
    BY <1>6 DEF ClearDeny, TypeOK, Named, IdleAsker
  <2> QED BY <2>2, <2>3
<1>7. CASE \E i \in Cards : ClearRead(k, i)
  <2>1. PICK i \in Cards : ClearRead(k, i)
    BY <1>7
  <2> DEFINE a == [IdleAsker EXCEPT !.pc = "clear", !.card = i]
  <2>2. a \in AskerType /\ a.card = i
    BY DEF AskerType, IdleAsker
  <2>3. TypeOK'
    BY <2>1, <2>2 DEF ClearRead, TypeOK
  <2>4. Named'
    BY <2>1, <2>2 DEF ClearRead, TypeOK, Named
  <2> QED BY <2>3, <2>4
<1> QED
  BY <1>2, <1>3, <1>4, <1>5, <1>6, <1>7 DEF AskerStep

\* Moving a request on, or ending it, keeps the requests well typed.
LEMMA StepType ==
  ASSUME TypeInv, NEW h \in Operators, op[h].pc # "idle",
         \/ \E pc \in {"apply", "reopen"} : Step(h, pc)
         \/ Done(h)
  PROVE  /\ op' \in [Operators -> OpType]
         /\ \A g \in Operators : op'[g].pc # "idle" => op'[g].card \in Cards
<1> USE DEF TypeInv
<1>1. ASSUME NEW pc \in {"apply", "reopen"}, Step(h, pc)
      PROVE  /\ op' \in [Operators -> OpType]
             /\ \A g \in Operators : op'[g].pc # "idle" => op'[g].card \in Cards
  <2>1. [op[h] EXCEPT !.pc = pc] \in OpType /\ [op[h] EXCEPT !.pc = pc].card = op[h].card
    BY DEF TypeOK, OpType
  <2> QED
    BY <1>1, <2>1 DEF Step, TypeOK, Named
<1>2. CASE Done(h)
  BY <1>2, Blanks DEF Done, TypeOK, Named, IdleOp
<1> QED
  BY <1>1, <1>2

\* Every step of an operator's request keeps the types.
LEMMA TypeOperator ==
  ASSUME TypeInv, NEW h \in Operators,
         OpStep(h) \/ \E i \in Cards : ReadCard(h, i) \/ Deny(h, i)
  PROVE  TypeInv'
<1> USE DEF TypeInv, OpUnchanged
<1>1. CASE Claim(h)
  <2>1. /\ op' \in [Operators -> OpType]
        /\ \A g \in Operators : op'[g].pc # "idle" => op'[g].card \in Cards
    BY <1>1, StepType DEF Claim
  <2>2. card' \in [Cards -> CardType]
    BY <1>1, DecidedType DEF Claim, TypeOK, Statuses
  <2> QED
    BY <1>1, <2>1, <2>2 DEF Claim, TypeOK, Named
<1>2. CASE ApplyMove(h)
  <2>1. /\ op' \in [Operators -> OpType]
        /\ \A g \in Operators : op'[g].pc # "idle" => op'[g].card \in Cards
    BY <1>2, StepType DEF ApplyMove
  <2>2. card[op[h].card] \in CardType /\ op[h].card \in Cards
    BY <1>2 DEF ApplyMove, TypeOK, Named
  <2>3. stage' \in [Strategies -> Stages]
    BY <1>2, <2>2 DEF ApplyMove, TypeOK, CardType
  <2>4. cooldown' \in [Strategies -> BOOLEAN]
    BY <1>2, <2>2 DEF ApplyMove, CooldownAfter, TypeOK
  <2> QED
    BY <1>2, <2>1, <2>2, <2>3, <2>4 DEF ApplyMove, TypeOK, Named
<1>3. CASE ApplyFails(h)
  <2>1. /\ op' \in [Operators -> OpType]
        /\ \A g \in Operators : op'[g].pc # "idle" => op'[g].card \in Cards
    BY <1>3, StepType DEF ApplyFails
  <2> QED
    BY <1>3, <2>1 DEF ApplyFails, TypeOK, Named
<1>4. CASE Reopen(h)
  <2>1. /\ op' \in [Operators -> OpType]
        /\ \A g \in Operators : op'[g].pc # "idle" => op'[g].card \in Cards
    BY <1>4, StepType DEF Reopen
  <2>2. card[op[h].card] \in CardType /\ op[h].prev \in Statuses
    BY <1>4 DEF Reopen, TypeOK, Named, OpType
  <2>3. [card[op[h].card] EXCEPT !.status = op[h].prev, !.fresh = (op[h].prev = "approved")] \in CardType
    BY <2>2 DEF CardType
  <2>4. card' \in [Cards -> CardType]
    BY <1>4, <2>2, <2>3 DEF Reopen, TypeOK
  <2> QED
    BY <1>4, <2>1, <2>4 DEF Reopen, TypeOK, Named
<1>5. CASE ArmCooldown(h)
  <2>1. /\ op' \in [Operators -> OpType]
        /\ \A g \in Operators : op'[g].pc # "idle" => op'[g].card \in Cards
    BY <1>5, StepType DEF ArmCooldown
  <2> QED
    BY <1>5, <2>1 DEF ArmCooldown, TypeOK, Named
<1>6. ASSUME NEW i \in Cards, ReadCard(h, i) PROVE TypeInv'
  <2>1. [pc |-> "read", card |-> i, prev |-> card[i].status] \in OpType
    BY DEF OpType, TypeOK, CardType
  <2> QED
    BY <1>6, <2>1 DEF ReadCard, TypeOK, Named
<1>7. ASSUME NEW i \in Cards, Deny(h, i) PROVE TypeInv'
  <2>1. [pc |-> "arming", card |-> i, prev |-> "denied"] \in OpType
    BY DEF OpType, Statuses
  <2>2. card' \in [Cards -> CardType]
    BY <1>7, DecidedType DEF Deny, TypeOK, Statuses
  <2> QED
    BY <1>7, <2>1, <2>2, Blanks DEF Deny, TypeOK, Named, IdleOp
<1> QED
  BY <1>1, <1>2, <1>3, <1>4, <1>5, <1>6, <1>7 DEF OpStep

\* Every step keeps the types.
LEMMA TypeStep == TypeInv /\ [Next]_vars => TypeInv'
<1> SUFFICES ASSUME TypeInv, [Next]_vars PROVE TypeInv'
    OBVIOUS
<1>1. ASSUME NEW i \in Cards, Revise(i) PROVE TypeInv'
  BY <1>1, DecidedType DEF Revise, OpUnchanged, TypeInv, TypeOK, Named, Statuses
<1>2. ASSUME NEW i \in Cards, WindowEnds(i) PROVE TypeInv'
  <2>1. [card[i] EXCEPT !.fresh = FALSE] \in CardType
    BY DEF TypeInv, TypeOK, CardType
  <2> QED
    BY <1>2, <2>1 DEF WindowEnds, OpUnchanged, TypeInv, TypeOK, Named
<1>3. ASSUME NEW s \in Strategies, ForceMove(s) PROVE TypeInv'
  <2>1. PICK to \in Stages : stage' = [stage EXCEPT ![s] = to]
    BY <1>3 DEF ForceMove, TypeInv, TypeOK, Stages
  <2> QED
    BY <1>3, <2>1 DEF ForceMove, TypeInv, TypeOK, Named
<1>4. ASSUME NEW s \in Strategies, CooldownEnds(s) PROVE TypeInv'
  BY <1>4 DEF CooldownEnds, OpUnchanged, TypeInv, TypeOK, Named
<1>5. CASE Crash
  BY <1>5, Blanks DEF Crash, TypeInv, TypeOK, Named, IdleOp, IdleAsker
<1>6. CASE UNCHANGED vars
  BY <1>6 DEF vars, TypeInv, TypeOK, Named
<1> QED
  BY <1>1, <1>2, <1>3, <1>4, <1>5, <1>6, TypeAsker, TypeOperator DEF Next

\* The table, the stages, the cooldowns and every request keep their types,
\* for every number of cards, strategies, operators and callers.
THEOREM ApprovalsTypeCorrect == Spec => []TypeOK
<1>1. TypeInv => TypeOK
  BY DEF TypeInv
<1> QED
  BY <1>1, TypeInit, TypeStep, PTL DEF Spec

-----------------------------------------------------------------------------
(* Decisions.                                                              *)

\* Who holds what when one request moves on, ends or takes up a card, the others
\* staying where they are.
OthersStay(h) == \A g \in Operators \ {h} : op'[g] = op[g]

\* Initially nobody holds a card and none was applied.
LEMMA DecisionInit == Init => DecisionInv
  BY DEF Init, DecisionInv, ApplyExclusive, HeldDecided, AppliedSettled,
         ClearsDethrone, Holds, IdleOp, IdleAsker

\* Decided rewrites the status of one card and no card's kind.
LEMMA DecidedCard ==
  ASSUME card \in [Cards -> CardType], NEW i \in Cards, NEW s \in Statuses,
         card' = Decided(i, s)
  PROVE  /\ card'[i].status = s
         /\ \A j \in Cards : card'[j].kind = card[j].kind
         /\ \A j \in Cards \ {i} : card'[j] = card[j]
<1>1. card' = [card EXCEPT ![i] =
          [card[i] EXCEPT !.status = s, !.fresh = (s = "approved")]]
  BY DEF Decided, CardType
<1>2. /\ [card[i] EXCEPT !.status = s, !.fresh = (s = "approved")].status = s
      /\ [card[i] EXCEPT !.status = s, !.fresh = (s = "approved")].kind = card[i].kind
  BY DEF CardType
<1> QED
  BY <1>1, <1>2

\* A caller's steps: a new card takes a row nobody refers to, and policy denies
\* dethrone cards only.
LEMMA DecisionAsker ==
  ASSUME TypeInv, DecisionInv, NEW k \in Askers,
         \/ AskerStep(k)
         \/ \E s \in Strategies : AskPromotion(k, s) \/ AskDethrone(k, s)
         \/ \E i \in Cards : ClearRead(k, i)
  PROVE  DecisionInv'
<1> USE DEF TypeInv, DecisionInv, AskerUnchanged
<1>0. ASSUME UNCHANGED <<card, applied, op>>, ClearsDethrone' PROVE DecisionInv'
  BY <1>0 DEF ApplyExclusive, HeldDecided, AppliedSettled, Holds
<1>1. ASSUME NEW kind, NEW s, NEW to, Begin(k, kind, s, to) PROVE DecisionInv'
  <2> DEFINE a == [IdleAsker EXCEPT !.pc = "find", !.kind = kind, !.target = s, !.to = to]
  <2>1. a.pc = "find"
    BY DEF IdleAsker
  <2>2. asker' = [asker EXCEPT ![k] = a] /\ card' = card
    BY <1>1 DEF Begin
  <2>3. ClearsDethrone'
    BY <2>1, <2>2 DEF ClearsDethrone, TypeOK
  <2> QED BY <1>0, <1>1, <2>3 DEF Begin
<1>2. CASE FindActive(k)
  <2>1. asker'[k].pc # "clear" /\ \A g \in Askers \ {k} : asker'[g] = asker[g]
    <3>1. [asker[k] EXCEPT !.pc = "file"].pc = "file"
      BY DEF TypeOK, AskerType
    <3> QED BY <1>2, <3>1 DEF FindActive, TypeOK, IdleAsker
  <2>2. ClearsDethrone'
    BY <1>2, <2>1 DEF FindActive, ClearsDethrone
  <2> QED BY <1>0, <1>2, <2>2 DEF FindActive
<1>3. CASE FileCard(k)
  <2>1. PICK i \in Cards :
          /\ Reusable(i)
          /\ card' = [card EXCEPT ![i] =
                [status |-> "pending_approval", kind |-> asker[k].kind,
                 target |-> asker[k].target, to |-> asker[k].to,
                 fresh |-> FALSE]]
          /\ applied' = applied \ {i}
    BY <1>3 DEF FileCard
  <2>2. /\ \A h \in Operators : op[h].card # i
        /\ \A g \in Askers : asker[g].card # i
    BY <2>1 DEF Reusable, Referenced
  <2>3. op' = op /\ \A j \in Cards \ {i} : card'[j] = card[j]
    BY <1>3, <2>1 DEF FileCard, TypeOK
  <2>4. ApplyExclusive' /\ HeldDecided'
    BY <2>2, <2>3 DEF ApplyExclusive, HeldDecided, Holds
  <2>5. AppliedSettled'
    BY <2>1, <2>3 DEF AppliedSettled, Holds, TypeOK
  <2>6. ClearsDethrone'
    <3>1. asker'[k].pc # "clear" /\ \A g \in Askers \ {k} : asker'[g] = asker[g]
      BY <1>3 DEF FileCard, TypeOK, IdleAsker
    <3> QED BY <2>2, <2>3, <3>1 DEF ClearsDethrone, Named
  <2> QED BY <2>4, <2>5, <2>6
<1>4. CASE ClearDeny(k)
  <2> DEFINE i == asker[k].card
  <2>1. i \in Cards /\ card[i].kind = "dethrone"
    BY <1>4 DEF ClearDeny, Named, ClearsDethrone
  <2>2. /\ card'[i].status = "denied"
        /\ \A j \in Cards : card'[j].kind = card[j].kind
        /\ \A j \in Cards \ {i} : card'[j] = card[j]
    BY <1>4, <2>1, DecidedCard DEF ClearDeny, TypeOK, Statuses
  <2>3. op' = op /\ applied' = applied
    BY <1>4 DEF ClearDeny
  <2>4. ApplyExclusive'
    BY <2>3 DEF ApplyExclusive, Holds
  <2>5. HeldDecided' /\ AppliedSettled'
    BY <2>1, <2>2, <2>3 DEF HeldDecided, AppliedSettled, Holds, TypeOK
  <2>6. ClearsDethrone'
    <3>1. asker'[k].pc # "clear" /\ \A g \in Askers \ {k} : asker'[g] = asker[g]
      BY <1>4 DEF ClearDeny, TypeOK, IdleAsker
    <3> QED BY <2>2, <3>1 DEF ClearsDethrone, Named
  <2> QED BY <2>4, <2>5, <2>6
<1>5. ASSUME NEW i \in Cards, ClearRead(k, i) PROVE DecisionInv'
  <2>1. [IdleAsker EXCEPT !.pc = "clear", !.card = i].card = i
    BY DEF IdleAsker
  <2>2. asker'[k].card = i /\ \A g \in Askers \ {k} : asker'[g] = asker[g]
    BY <1>5, <2>1 DEF ClearRead, TypeOK
  <2>3. ClearsDethrone'
    BY <1>5, <2>2 DEF ClearRead, ClearsDethrone
  <2> QED BY <1>0, <1>5, <2>3 DEF ClearRead
<1> QED
  BY <1>1, <1>2, <1>3, <1>4, <1>5 DEF AskerStep, AskPromotion, AskDethrone

\* An operator's steps.  Only Claim takes hold of a card, and it must find the
\* card undecided, which no held and no applied card is.
LEMMA DecisionOperator ==
  ASSUME TypeInv, DecisionInv, NEW h \in Operators,
         OpStep(h) \/ \E i \in Cards : ReadCard(h, i) \/ Deny(h, i)
  PROVE  DecisionInv'
<1> USE DEF TypeInv, DecisionInv, OpUnchanged
<1>1. ASSUME UNCHANGED <<card, applied, asker>>, OthersStay(h),
             \A i \in Cards : Holds(h, i)' => Holds(h, i)
      PROVE  DecisionInv'
  <2>1. \A g \in Operators : \A i \in Cards : Holds(g, i)' => Holds(g, i)
    BY <1>1 DEF OthersStay, Holds
  <2> QED
    BY <1>1, <2>1 DEF ApplyExclusive, HeldDecided, AppliedSettled, ClearsDethrone, TypeOK
<1>2. ASSUME Done(h) PROVE OthersStay(h) /\ \A i \in Cards : ~Holds(h, i)'
  BY <1>2 DEF Done, OthersStay, Holds, TypeOK, IdleOp
<1>3. ASSUME NEW pc, Step(h, pc)
      PROVE  OthersStay(h) /\ op'[h].card = op[h].card /\ op'[h].pc = pc
  <2>1. [op[h] EXCEPT !.pc = pc].card = op[h].card /\ [op[h] EXCEPT !.pc = pc].pc = pc
    BY DEF TypeOK, OpType
  <2> QED BY <1>3, <2>1 DEF Step, OthersStay, TypeOK
<1>4. ASSUME NEW i \in Cards, NEW s \in Statuses, Undecided(i), card' = Decided(i, s),
             UNCHANGED <<applied, asker>>, OthersStay(h),
             \A j \in Cards : Holds(h, j)' => j = i /\ s = "approved"
      PROVE  DecisionInv'
  <2>1. /\ card'[i].status = s
        /\ \A j \in Cards : card'[j].kind = card[j].kind
        /\ \A j \in Cards \ {i} : card'[j] = card[j]
    BY <1>4, DecidedCard DEF TypeOK
  <2>2. \A g \in Operators : ~Holds(g, i)
    BY <1>4 DEF Undecided, HeldDecided
  <2>3. i \in applied => card[i].kind # "promotion"
    BY <1>4 DEF Undecided, AppliedSettled
  <2>4. \A g \in Operators \ {h} : \A j \in Cards : Holds(g, j)' => Holds(g, j)
    BY <1>4 DEF OthersStay, Holds
  <2>5. ApplyExclusive'
    BY <1>4, <2>2, <2>4 DEF ApplyExclusive
  <2>6. HeldDecided'
    BY <1>4, <2>1, <2>2, <2>4 DEF HeldDecided
  <2>7. AppliedSettled'
    BY <1>4, <2>1, <2>3, <2>4 DEF AppliedSettled, TypeOK
  <2>8. ClearsDethrone'
    BY <1>4, <2>1 DEF ClearsDethrone, Named
  <2> QED BY <2>5, <2>6, <2>7, <2>8
<1>5. CASE Claim(h)
  <2>1. op[h].card \in Cards
    BY <1>5 DEF Claim, Named
  <2>2. CASE Undecided(op[h].card)
    <3>1. card' = Decided(op[h].card, "approved") /\ Step(h, "apply")
      BY <1>5, <2>2 DEF Claim
    <3>2. OthersStay(h) /\ \A j \in Cards : Holds(h, j)' => j = op[h].card
      BY <3>1, <1>3 DEF Holds
    <3> QED BY <1>4, <1>5, <2>1, <2>2, <3>1, <3>2 DEF Claim, Statuses
  <2>3. CASE ~Undecided(op[h].card)
    BY <1>1, <1>2, <1>5, <2>3 DEF Claim
  <2> QED BY <2>2, <2>3
<1>6. CASE ApplyMove(h)
  <2>0. PICK i \in Cards : i = op[h].card
    BY <1>6 DEF ApplyMove, Named
  <2>1. Holds(h, i) /\ applied' = applied \union {i}
    BY <1>6, <2>0 DEF ApplyMove, Holds
  <2>2. OthersStay(h) /\ (\A j \in Cards : ~Holds(h, j)') /\ UNCHANGED <<card, asker>>
    BY <1>6, <1>2 DEF ApplyMove
  <2>3. \A g \in Operators : \A j \in Cards : Holds(g, j)' => Holds(g, j) /\ g # h
    BY <2>2 DEF OthersStay, Holds
  <2>4. ApplyExclusive' /\ HeldDecided' /\ ClearsDethrone'
    BY <2>2, <2>3 DEF ApplyExclusive, HeldDecided, ClearsDethrone
  <2>5. card[i].kind = "promotion" => card[i].status \in {"approved", "revised"}
    BY <2>1 DEF HeldDecided
  <2>6. \A g \in Operators : ~Holds(g, i)'
    BY <2>1, <2>3 DEF ApplyExclusive
  <2>7. AppliedSettled'
    BY <2>1, <2>2, <2>3, <2>5, <2>6 DEF AppliedSettled, TypeOK
  <2> QED BY <2>4, <2>7
<1>7. CASE ApplyFails(h)
  <2>1. OthersStay(h) /\ op'[h].card = op[h].card /\ op[h].pc = "apply"
    BY <1>3, <1>7 DEF ApplyFails
  <2> QED BY <1>1, <1>7, <2>1 DEF ApplyFails, Holds
<1>8. CASE Reopen(h)
  <2>0. PICK i \in Cards : i = op[h].card
    BY <1>8 DEF Reopen, Named
  <2>1. Holds(h, i) /\ applied' = applied /\ asker' = asker
    BY <1>8, <2>0 DEF Reopen, Holds
  <2>2. OthersStay(h) /\ \A j \in Cards : ~Holds(h, j)'
    BY <1>8, <1>2 DEF Reopen
  <2>3. \A g \in Operators : \A j \in Cards : Holds(g, j)' => Holds(g, j) /\ g # h
    BY <2>2 DEF OthersStay, Holds
  <2>4. \A g \in Operators : ~Holds(g, i)'
    BY <2>1, <2>3 DEF ApplyExclusive
  <2>5. i \in applied => card[i].kind # "promotion"
    BY <2>1 DEF AppliedSettled
  <2>6. [card[i] EXCEPT !.status = op[h].prev,
                        !.fresh = (op[h].prev = "approved")].kind = card[i].kind
    BY <2>1 DEF TypeOK, CardType
  <2>7. /\ \A j \in Cards : card'[j].kind = card[j].kind
        /\ \A j \in Cards \ {i} : card'[j] = card[j]
    BY <1>8, <2>0, <2>6 DEF Reopen, TypeOK
  <2>8. ApplyExclusive' /\ HeldDecided'
    BY <2>3, <2>4, <2>7 DEF ApplyExclusive, HeldDecided
  <2>9. AppliedSettled' /\ ClearsDethrone'
    BY <2>1, <2>3, <2>5, <2>7 DEF AppliedSettled, ClearsDethrone, Named, TypeOK
  <2> QED BY <2>8, <2>9
<1>9. CASE ArmCooldown(h)
  BY <1>1, <1>2, <1>9 DEF ArmCooldown
<1>10. ASSUME NEW i \in Cards, ReadCard(h, i) PROVE DecisionInv'
  <2>1. OthersStay(h) /\ op'[h].pc = "read"
    BY <1>10 DEF ReadCard, OthersStay, TypeOK
  <2> QED BY <1>1, <1>10, <2>1 DEF ReadCard, Holds
<1>11. ASSUME NEW i \in Cards, Deny(h, i) PROVE DecisionInv'
  <2>1. OthersStay(h) /\ op'[h].pc \in {"idle", "arming"}
    BY <1>11 DEF Deny, OthersStay, TypeOK, IdleOp
  <2> QED BY <1>4, <1>11, <2>1 DEF Deny, Holds, Statuses
<1> QED
  BY <1>5, <1>6, <1>7, <1>8, <1>9, <1>10, <1>11 DEF OpStep

\* Every step keeps the invariant of the decisions.
LEMMA DecisionStep == TypeInv /\ DecisionInv /\ [Next]_vars => DecisionInv'
<1> SUFFICES ASSUME TypeInv, DecisionInv, [Next]_vars PROVE DecisionInv'
    OBVIOUS
<1> USE DEF TypeInv, DecisionInv
<1>1. ASSUME NEW i \in Cards, Revise(i) PROVE DecisionInv'
  <2>1. /\ card'[i].status = "revised"
        /\ \A j \in Cards : card'[j].kind = card[j].kind
        /\ \A j \in Cards \ {i} : card'[j] = card[j]
    BY <1>1, DecidedCard DEF Revise, TypeOK, Statuses
  <2>2. UNCHANGED <<applied, op, asker>>
    BY <1>1 DEF Revise, OpUnchanged
  <2> QED
    BY <2>1, <2>2 DEF ApplyExclusive, HeldDecided, AppliedSettled, ClearsDethrone,
                      Holds, Named, TypeOK
<1>2. ASSUME NEW i \in Cards, WindowEnds(i) PROVE DecisionInv'
  <2>1. /\ [card[i] EXCEPT !.fresh = FALSE].status = card[i].status
        /\ [card[i] EXCEPT !.fresh = FALSE].kind = card[i].kind
    BY DEF TypeOK, CardType
  <2>2. \A j \in Cards : card'[j].kind = card[j].kind /\ card'[j].status = card[j].status
    BY <1>2, <2>1 DEF WindowEnds, TypeOK
  <2>3. UNCHANGED <<applied, op, asker>>
    BY <1>2 DEF WindowEnds, OpUnchanged
  <2> QED
    BY <2>2, <2>3 DEF ApplyExclusive, HeldDecided, AppliedSettled, ClearsDethrone,
                      Holds, Named, TypeOK
<1>3. ASSUME UNCHANGED <<card, applied, op, asker>> PROVE DecisionInv'
  BY <1>3 DEF ApplyExclusive, HeldDecided, AppliedSettled, ClearsDethrone, Holds
<1>4. CASE Crash
  BY <1>4 DEF Crash, ApplyExclusive, HeldDecided, AppliedSettled, ClearsDethrone,
              Holds, IdleOp, IdleAsker
<1> QED
  BY <1>1, <1>2, <1>3, <1>4, DecisionAsker, DecisionOperator
     DEF Next, ForceMove, CooldownEnds, OpUnchanged, vars

\* Two operators never both carry out one card, however many requests, callers
\* and cards there are: between the compare-and-set of update_approval and the
\* end of the apply the card is decided, so no second claim succeeds.
THEOREM ApplyExclusiveCorrect == Spec => []ApplyExclusive
<1>1. TypeInv /\ DecisionInv => ApplyExclusive
  BY DEF DecisionInv
<1> QED
  BY <1>1, TypeInit, DecisionInit, TypeStep, DecisionStep, PTL DEF Spec

\* A promotion an operator denied is neither applied nor being applied, through
\* any number of reopenings, clearings, reuses of rows and crashes.
THEOREM DeniedNotAppliedCorrect == Spec => []DeniedNotApplied
<1>1. TypeInv /\ DecisionInv => DeniedNotApplied
  BY DEF DecisionInv, HeldDecided, AppliedSettled, DeniedNotApplied
<1> QED
  BY <1>1, TypeInit, DecisionInit, TypeStep, DecisionStep, PTL DEF Spec
=============================================================================
