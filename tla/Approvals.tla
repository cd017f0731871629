----------------------------- MODULE Approvals ------------------------------
(***************************************************************************)
(* Operator approvals of strategy moves: the gates of                      *)
(* brain.transition_stage that file a card instead of moving the strategy, *)
(* the decisions of control_plane/approvals.py, the compare-and-set of     *)
(* db.update_approval, the reopening after a failed apply, the deny        *)
(* cooldown (dethrone_cooldown.py) and policy's clearing of stale cards.   *)
(*                                                                         *)
(* A handler is one request of an operator; an asker is one caller of      *)
(* transition_stage without force.  Reads and writes of different          *)
(* connections interleave.  A row that no query can find again is reused   *)
(* for the next card, so the number of cards is not bounded.               *)
(***************************************************************************)
EXTENDS Naturals, FiniteSets

CONSTANTS
    Strategies,
    Cards,       \* approval ids
    Operators,   \* concurrent requests of operators
    Askers,      \* concurrent automated callers
    NoStrategy, NoCard,
    MaxMoves,    \* bound: stage changes an operator forces
    MaxCrashes   \* bound: process stops

ASSUME Bounds ==
    /\ MaxMoves \in Nat /\ MaxCrashes \in Nat
    /\ NoStrategy \notin Strategies /\ NoCard \notin Cards

VARIABLES
    card,      \* the approvals table
    stage,     \* strategies.stage
    cooldown,  \* is the deny cooldown of a strategy running?
    applied,   \* cards whose move was carried out (history)
    op,        \* where each operator request is
    asker,     \* where each automated caller is
    moves, crashes

vars == <<card, stage, cooldown, applied, op, asker, moves, crashes>>

\* "gauntlet" stands for every stage before paper.
Stages == {"gauntlet", "paper", "live", "archived"}
Owned == {"paper", "live"}

Statuses == {"none", "pending_approval", "approved", "denied", "revised"}

CardType == [status : Statuses, kind : {"promotion", "dethrone"},
             target : Strategies \union {NoStrategy}, to : Stages,
             fresh : BOOLEAN]   \* approved within the last ten minutes

NoCardRow == [status |-> "none", kind |-> "promotion", target |-> NoStrategy,
              to |-> "paper", fresh |-> FALSE]

OpType == [pc : {"idle", "read", "apply", "reopen", "arming"},
           card : Cards \union {NoCard}, prev : Statuses]
IdleOp == [pc |-> "idle", card |-> NoCard, prev |-> "none"]

AskerType == [pc : {"idle", "find", "file", "clear"},
              kind : {"promotion", "dethrone"},
              target : Strategies \union {NoStrategy}, to : Stages,
              card : Cards \union {NoCard}]
IdleAsker == [pc |-> "idle", kind |-> "promotion", target |-> NoStrategy,
              to |-> "paper", card |-> NoCard]

\* One type invariant for the module's state.
TypeOK ==
    /\ card \in [Cards -> CardType]
    /\ stage \in [Strategies -> Stages]
    /\ cooldown \in [Strategies -> BOOLEAN]
    /\ applied \subseteq Cards
    /\ op \in [Operators -> OpType]
    /\ asker \in [Askers -> AskerType]
    /\ moves \in Nat /\ crashes \in Nat

Init ==
    /\ card = [i \in Cards |-> NoCardRow]
    /\ stage = [s \in Strategies |-> "gauntlet"]
    /\ cooldown = [s \in Strategies |-> FALSE]
    /\ applied = {}
    /\ op = [h \in Operators |-> IdleOp]
    /\ asker = [k \in Askers |-> IdleAsker]
    /\ moves = 0 /\ crashes = 0

-----------------------------------------------------------------------------
(* Filing a card: the gates of transition_stage.                           *)

AskerUnchanged == UNCHANGED <<stage, cooldown, applied, op, moves, crashes>>

Begin(k, kind, s, to) ==
    /\ asker[k].pc = "idle"
    /\ asker' = [asker EXCEPT ![k] = [IdleAsker EXCEPT
          !.pc = "find", !.kind = kind, !.target = s, !.to = to]]
    /\ UNCHANGED card /\ AskerUnchanged

\* The promotion passed its gates and needs an operator.  Paper -> live files
\* no card: transition_stage refuses it before this gate.
AskPromotion(k, s) == stage[s] = "gauntlet" /\ Begin(k, "promotion", s, "paper")

\* A demotion from an operator-owned stage, unless a deny cooldown runs.  From
\* paper, and from a live probation, only a request in an operator's name gets
\* this far: another caller's is recorded and refused.
AskDethrone(k, s) ==
    /\ stage[s] \in Owned /\ ~cooldown[s]
    /\ \E to \in {"archived", IF stage[s] = "live" THEN "paper" ELSE "gauntlet"} :
          Begin(k, "dethrone", s, to)

Same(i, kind, s) ==
    card[i].kind = kind /\ card[i].target = s

\* Mutant: an approved promotion counts as active for ever.
ActivePromotionForEver(s) ==
    {i \in Cards : /\ Same(i, "promotion", s)
                   /\ card[i].status \in {"pending_approval", "approved"}}

\* _find_active_promotion_approval: an approved card counts while its apply can
\* still be in flight.
ActivePromotion(s) ==
    {i \in Cards : /\ Same(i, "promotion", s)
                   /\ \/ card[i].status = "pending_approval"
                      \/ card[i].status = "approved" /\ card[i].fresh}

\* _find_active_dethrone_approval: an approved card counts for ever.
ActiveDethrone(s) ==
    {i \in Cards : /\ Same(i, "dethrone", s)
                   /\ card[i].status \in {"pending_approval", "approved"}}

ActiveCards(kind, s) ==
    IF kind = "promotion" THEN ActivePromotion(s) ELSE ActiveDethrone(s)

FindActive(k) ==
    /\ asker[k].pc = "find"
    /\ asker' = [asker EXCEPT ![k] =
          IF ActiveCards(@.kind, @.target) # {} THEN IdleAsker
          ELSE [@ EXCEPT !.pc = "file"]]
    /\ UNCHANGED card /\ AskerUnchanged

\* Mutant: the caller's word for the decision is stored as it is.
DecidedInOwnWords(i, status) ==
    [card EXCEPT ![i].status = IF status = "denied" THEN "rejected" ELSE status,
                 ![i].fresh = (status = "approved")]

\* update_approval: the row's new status; its age matters while it is approved.
Decided(i, status) ==
    [card EXCEPT ![i].status = status, ![i].fresh = (status = "approved")]

Referenced(i) == \/ \E h \in Operators : op[h].card = i
                 \/ \E k \in Askers : asker[k].card = i

\* A row no query of this module will return again.
Reusable(i) ==
    /\ ~Referenced(i)
    /\ \/ card[i].status \in {"none", "denied", "revised"}
       \/ /\ card[i].status = "approved" /\ card[i].kind = "promotion"
          /\ ~card[i].fresh

\* create_approval: the insert, on the caller's connection.
FileCard(k) ==
    /\ asker[k].pc = "file"
    /\ \E i \in Cards :
          /\ Reusable(i)
          /\ card' = [card EXCEPT ![i] =
                [status |-> "pending_approval", kind |-> asker[k].kind,
                 target |-> asker[k].target, to |-> asker[k].to,
                 fresh |-> FALSE]]
          /\ applied' = applied \ {i}
    /\ asker' = [asker EXCEPT ![k] = IdleAsker]
    /\ UNCHANGED <<stage, cooldown, op, moves, crashes>>

\* policy's clearing of stale dethrone cards: it reads the pending ones and
\* denies them by id, whatever they are by then.
ClearRead(k, i) ==
    /\ asker[k].pc = "idle"
    /\ card[i].kind = "dethrone" /\ card[i].status = "pending_approval"
    /\ stage[card[i].target] = "paper"
    /\ asker' = [asker EXCEPT ![k] = [IdleAsker EXCEPT !.pc = "clear", !.card = i]]
    /\ UNCHANGED card /\ AskerUnchanged

ClearDeny(k) ==
    /\ asker[k].pc = "clear"
    /\ card' = Decided(asker[k].card, "denied")
    /\ asker' = [asker EXCEPT ![k] = IdleAsker]
    /\ AskerUnchanged

-----------------------------------------------------------------------------
(* Decisions.                                                              *)

OpUnchanged == UNCHANGED <<asker, moves, crashes>>

Step(h, pc) == op' = [op EXCEPT ![h].pc = pc]
Done(h) == op' = [op EXCEPT ![h] = IdleOp]

Undecided(i) == card[i].status = "pending_approval"

\* post_approve_approval reads the card, and remembers its status.  Other cards
\* can never be pending again: reading one ends in the conflict of Claim.
ReadCard(h, i) ==
    /\ op[h].pc = "idle"
    /\ Undecided(i) \/ (card[i].status = "approved" /\ card[i].fresh)
    /\ op' = [op EXCEPT ![h] = [pc |-> "read", card |-> i, prev |-> card[i].status]]
    /\ UNCHANGED <<card, stage, cooldown, applied>> /\ OpUnchanged

\* Mutant: the claim goes by the status read earlier.
ClaimUnchecked(h) ==
    /\ op[h].pc = "read"
    /\ IF op[h].prev = "pending_approval"
       THEN /\ card' = Decided(op[h].card, "approved")
            /\ Step(h, "apply")
       ELSE Done(h) /\ UNCHANGED card
    /\ UNCHANGED <<stage, cooldown, applied>> /\ OpUnchanged

\* update_approval with expected_current_status: the claim, or a conflict.
Claim(h) ==
    /\ op[h].pc = "read"
    /\ IF Undecided(op[h].card)
       THEN /\ card' = Decided(op[h].card, "approved")
            /\ Step(h, "apply")
       ELSE Done(h) /\ UNCHANGED card
    /\ UNCHANGED <<stage, cooldown, applied>> /\ OpUnchanged

\* What transition_stage accepts: a promotion from the gauntlet (or one already
\* made), a forced demotion to the next lower or to a terminal stage.
Moves(c) ==
    LET from == stage[c.target]
    IN  CASE c.kind = "promotion" -> from \in {"gauntlet", "paper"}
          [] c.kind = "dethrone" -> \/ c.to = "archived"
                                    \/ c.to = "paper" /\ from = "live"
                                    \/ c.to = "gauntlet" /\ from = "paper"

\* Leaving an operator-owned stage ends the deny cooldown, and so does an
\* approved dethrone.
CooldownAfter(c) ==
    IF c.kind = "dethrone" \/ (stage[c.target] \in Owned /\ c.to # stage[c.target])
    THEN [cooldown EXCEPT ![c.target] = FALSE] ELSE cooldown

ApplyMove(h) ==
    /\ op[h].pc = "apply"
    /\ LET c == card[op[h].card]
       IN  /\ Moves(c)
           /\ stage' = [stage EXCEPT ![c.target] = c.to]
           /\ cooldown' = CooldownAfter(c)
    /\ applied' = applied \union {op[h].card}
    /\ Done(h)
    /\ UNCHANGED card /\ OpUnchanged

\* Refused by a gate, by the demotion check or by a concurrent change.
ApplyFails(h) ==
    /\ op[h].pc = "apply"
    /\ Step(h, "reopen")
    /\ UNCHANGED <<card, stage, cooldown, applied>> /\ OpUnchanged

\* reopen_approval_after_failed_apply.
Reopen(h) ==
    /\ op[h].pc = "reopen"
    /\ card' = [card EXCEPT ![op[h].card] =
          IF @.status = "approved"
          THEN [@ EXCEPT !.status = op[h].prev, !.fresh = (op[h].prev = "approved")]
          ELSE @]
    /\ Done(h)
    /\ UNCHANGED <<stage, cooldown, applied>> /\ OpUnchanged

\* post_deny_approval: the decision, then for a dethrone card the cooldown.
Deny(h, i) ==
    /\ op[h].pc = "idle" /\ Undecided(i)
    /\ card' = Decided(i, "denied")
    /\ op' = [op EXCEPT ![h] = IF card[i].kind = "dethrone"
          THEN [pc |-> "arming", card |-> i, prev |-> "denied"] ELSE IdleOp]
    /\ UNCHANGED <<stage, cooldown, applied>> /\ OpUnchanged

\* record_dethrone_deny.
ArmCooldown(h) ==
    /\ op[h].pc = "arming"
    /\ cooldown' = [cooldown EXCEPT ![card[op[h].card].target] = TRUE]
    /\ Done(h)
    /\ UNCHANGED <<card, stage, applied>> /\ OpUnchanged

\* post_revise_approval is unguarded.
Revise(i) ==
    /\ card[i].status # "none"
    /\ card' = Decided(i, "revised")
    /\ UNCHANGED <<stage, cooldown, applied, op>> /\ OpUnchanged

\* An operator forces a stage change (or the paper pool retires a strategy).
ForceMove(s) ==
    /\ moves < MaxMoves
    /\ moves' = moves + 1
    /\ \E to \in CASE stage[s] = "gauntlet" -> {"paper", "archived"}
                   [] stage[s] = "paper" -> {"live", "gauntlet", "archived"}
                   [] stage[s] = "live" -> {"paper", "archived"}
                   [] stage[s] = "archived" -> {"gauntlet"} :
          stage' = [stage EXCEPT ![s] = to]
    /\ cooldown' = IF stage[s] \in Owned THEN [cooldown EXCEPT ![s] = FALSE]
                   ELSE cooldown
    /\ UNCHANGED <<card, applied, op, asker, crashes>>

-----------------------------------------------------------------------------
(* Time and faults.                                                        *)

\* Ten minutes after a decision; an apply does not take that long.
WindowEnds(i) ==
    /\ card[i].fresh
    /\ \A h \in Operators : op[h].card = i => op[h].pc \notin {"apply", "reopen"}
    /\ card' = [card EXCEPT ![i].fresh = FALSE]
    /\ UNCHANGED <<stage, cooldown, applied, op>> /\ OpUnchanged

CooldownEnds(s) ==
    /\ cooldown[s]
    /\ cooldown' = [cooldown EXCEPT ![s] = FALSE]
    /\ UNCHANGED <<card, stage, applied, op>> /\ OpUnchanged

\* The process stops: every request and every caller is gone.
Crash ==
    /\ crashes < MaxCrashes
    /\ crashes' = crashes + 1
    /\ op' = [h \in Operators |-> IdleOp]
    /\ asker' = [k \in Askers |-> IdleAsker]
    /\ UNCHANGED <<card, stage, cooldown, applied, moves>>

-----------------------------------------------------------------------------
AskerStep(k) == FindActive(k) \/ FileCard(k) \/ ClearDeny(k)

OpStep(h) ==
    Claim(h) \/ ApplyMove(h) \/ ApplyFails(h) \/ Reopen(h) \/ ArmCooldown(h)

Next ==
    \/ \E k \in Askers : \/ AskerStep(k)
                         \/ \E s \in Strategies : AskPromotion(k, s) \/ AskDethrone(k, s)
                         \/ \E i \in Cards : ClearRead(k, i)
    \/ \E h \in Operators : \/ OpStep(h)
                            \/ \E i \in Cards : ReadCard(h, i) \/ Deny(h, i)
    \/ \E i \in Cards : Revise(i) \/ WindowEnds(i)
    \/ \E s \in Strategies : ForceMove(s) \/ CooldownEnds(s)
    \/ Crash

Spec == Init /\ [][Next]_vars

\* Requests run to their end, callers keep asking for what they are refused,
\* and time passes.
Fairness ==
    /\ \A h \in Operators : WF_vars(OpStep(h))
    /\ \A k \in Askers : /\ WF_vars(AskerStep(k))
                         /\ \A s \in Strategies : SF_vars(AskPromotion(k, s))
    /\ \A i \in Cards : WF_vars(WindowEnds(i))

FairSpec == Spec /\ Fairness

-----------------------------------------------------------------------------
(* Properties.                                                             *)

Holds(h, i) == op[h].card = i /\ op[h].pc \in {"apply", "reopen"}

\* Two clicks on one card never both carry it out: between the claim and the
\* end of the apply no other request gets past the claim (post_approve_approval:
\* "so two concurrent clicks can't both apply").
ApplyExclusive ==
    \A g, h \in Operators : \A i \in Cards :
        g # h => ~(Holds(g, i) /\ Holds(h, i))

\* A promotion an operator denied was not carried out and is not being carried
\* out, whatever other requests, reopenings and crashes happened
\* (update_approval's compare-and-set).
DeniedNotApplied ==
    \A i \in Cards :
        card[i].kind = "promotion" /\ card[i].status = "denied" =>
            i \notin applied /\ \A h \in Operators : ~Holds(h, i)

\* A promotion left 'approved' by a crash does not strand its strategy: while
\* the strategy waits in the gauntlet, the operator gets a card to act on.
Stranded(i) ==
    /\ card[i].kind = "promotion" /\ card[i].status = "approved"
    /\ i \notin applied /\ stage[card[i].target] = "gauntlet"

CardReturns ==
    \A i \in Cards : \A s \in Strategies :
        Stranded(i) /\ card[i].target = s ~>
            \/ \E j \in Cards : Same(j, "promotion", s) /\ Undecided(j)
            \/ ~Stranded(i)
=============================================================================
