---------------------------- MODULE ReviewStore ----------------------------
(***************************************************************************)
(* The administrator's two lists of Natural Automation: housekeeping       *)
(* suggestions (housekeeping.json), rebuilt by every scan, and removal     *)
(* proposals (removal_proposals.json).  Each file is loaded and saved under*)
(* a lock of its own, and every operation is a load, a change of its copy  *)
(* and a save, in a thread of the server.                                  *)
(*                                                                         *)
(* A controller (an automation of Home Assistant) has at most one          *)
(* suggestion here; its fingerprint is the controller.                     *)
(***************************************************************************)
EXTENDS Naturals, FiniteSets

CONSTANTS
    Controllers,  \* automations
    Threads,      \* threads of the server
    MaxIds,       \* bound: removal proposals
    ReviewLimits  \* bounds: how often each of these may happen, in each of the plans

ReviewMishaps == {"blind",    \* Home Assistant cannot be read
            "overlap",  \* an operation starts while another one runs
            "crash",    \* the service stops; systemd starts it again
            "vanish",   \* the reason for a suggestion goes away
            "begin"}    \* an operation begins

ASSUME ReviewAssumption ==
    /\ MaxIds \in Nat /\ ReviewLimits \subseteq [ReviewMishaps -> Nat]
    /\ Controllers # {}

Ids == 1..MaxIds
ItemStates == {"suggested", "kept", "dismissed", "removal_proposed"}
\* A suggestion, and the removal proposal it names (0: none).
Items == [status : ItemStates \cup {"absent"}, proposal : Ids \cup {0}]
NoItem == [status |-> "absent", proposal |-> 0]
RemovalStates == {"pending", "approved", "rejected"}
Removals == [status : RemovalStates \cup {"none"}, of : Controllers]

VARIABLES
    noted,      \* controllers a scan has a reason to suggest
    house,      \* housekeeping.json
    removals,   \* removal_proposals.json
    reviewPc,   \* what a thread does next
    about,      \* the controller it is about
    id,         \* the proposal it is about
    choice,     \* the decision it was given
    items,      \* its copy of the suggestions
    list,       \* its copy of the proposals
    taken,      \* proposal ids used
    decided,    \* ghost: the decision on a suggestion that was answered
    verdict,    \* ghost: the decision on a proposal that was answered
    reviewBudget, \* what may still happen
    allowed     \* what might at first

thread == <<about, id, choice, items, list>>
ghosts == <<decided, verdict>>
allowances == <<reviewBudget, allowed>>
reviewVars == <<noted, house, removals, reviewPc, thread, taken, ghosts, allowances>>

NoItems == [c \in Controllers |-> NoItem]
Nobody == CHOOSE c \in Controllers : TRUE
Unused == [status |-> "none", of |-> Nobody]
NoRemovals == [i \in Ids |-> Unused]

ReviewInit ==
    /\ noted = Controllers /\ house = NoItems /\ removals = NoRemovals
    /\ reviewPc = [t \in Threads |-> "idle"] /\ about = [t \in Threads |-> Nobody]
    /\ id = [t \in Threads |-> 0] /\ choice = [t \in Threads |-> "keep"]
    /\ items = [t \in Threads |-> NoItems] /\ list = [t \in Threads |-> NoRemovals]
    /\ taken = 0
    /\ decided = [c \in Controllers |-> "absent"] /\ verdict = [i \in Ids |-> "pending"]
    /\ allowed \in ReviewLimits /\ reviewBudget = allowed

SpendReview(mishaps) ==
    /\ \A m \in mishaps : reviewBudget[m] > 0
    /\ reviewBudget' = [m \in ReviewMishaps |-> IF m \in mishaps THEN reviewBudget[m] - 1 ELSE reviewBudget[m]]
    /\ UNCHANGED allowed
Go(t, from, to) == reviewPc[t] = from /\ reviewPc' = [reviewPc EXCEPT ![t] = to]
\* A thread ends its request and forgets its copies.
End(t) ==
    /\ reviewPc' = [reviewPc EXCEPT ![t] = "idle"]
    /\ about' = [about EXCEPT ![t] = Nobody] /\ id' = [id EXCEPT ![t] = 0]
    /\ choice' = [choice EXCEPT ![t] = "keep"]
    /\ items' = [items EXCEPT ![t] = NoItems] /\ list' = [list EXCEPT ![t] = NoRemovals]
Overlapping == IF \A t \in Threads : reviewPc[t] = "idle" THEN {} ELSE {"overlap"}
Begin(t, to, mishaps) ==
    /\ Go(t, "idle", to)
    /\ SpendReview({"begin"} \cup mishaps \cup Overlapping)

-----------------------------------------------------------------------------
(* scan_housekeeping.                                                      *)

\* Mutant: the decisions of the previous scan are not carried over.
MergedAnew(c) == [status |-> "suggested", proposal |-> 0]

\* A suggestion that was there before keeps its status.
Merged(c) == IF house[c].status # "absent" THEN house[c] ELSE [status |-> "suggested", proposal |-> 0]

ScanWith(t, seen) ==
    /\ items' = [items EXCEPT ![t] = [c \in Controllers |-> IF c \in seen THEN Merged(c) ELSE NoItem]]
    /\ UNCHANGED <<noted, house, removals, about, id, choice, list, taken, ghosts>>

ScanHousekeeping(t) == Begin(t, "save scan", {}) /\ ScanWith(t, noted)

\* An automation list that cannot be read is an empty one.
ScanBlind(t) == Begin(t, "save scan", {"blind"}) /\ ScanWith(t, {})

SaveScan(t) ==
    /\ reviewPc[t] = "save scan" /\ house' = items[t] /\ End(t)
    /\ UNCHANGED <<noted, removals, taken, ghosts, allowances>>

-----------------------------------------------------------------------------
(* review_housekeeping.                                                    *)

Decisions == {"keep", "dismiss", "propose_removal"}

StatusFor(d) == CASE d = "keep" -> "kept" [] d = "dismiss" -> "dismissed"
                  [] d = "propose_removal" -> "removal_proposed"

\* The suggestions are loaded first.
ReviewItem(t, c, d) ==
    /\ house[c].status # "absent"
    /\ Begin(t, IF d = "propose_removal" THEN "find" ELSE "save item", {})
    /\ about' = [about EXCEPT ![t] = c] /\ choice' = [choice EXCEPT ![t] = d]
    /\ items' = [items EXCEPT ![t] = [house EXCEPT ![c] = [house[c] EXCEPT !.status = StatusFor(d)]]]
    /\ UNCHANGED <<noted, house, removals, id, list, taken, ghosts>>

SaveItem(t) ==
    /\ reviewPc[t] = "save item" /\ house' = items[t] /\ End(t)
    /\ decided' = [decided EXCEPT ![about[t]] = items[t][about[t]].status]
    /\ UNCHANGED <<noted, removals, taken, verdict, allowances>>

-----------------------------------------------------------------------------
(* propose_removal, called by itself or by review_housekeeping.            *)

Propose(t, c) ==
    /\ Begin(t, "find", {})
    /\ about' = [about EXCEPT ![t] = c]
    /\ UNCHANGED <<noted, house, removals, id, choice, items, list, taken, ghosts>>

Open(r, c) == r.of = c /\ r.status \in {"pending", "approved"}

\* The suggestions with a proposal for one of them.
Naming(its, c, i) == [its EXCEPT ![c] = [its[c] EXCEPT !.proposal = i]]

\* review_housekeeping writes the proposal's id into its suggestion.
Answer(t, i) ==
    IF choice[t] = "propose_removal"
    THEN /\ reviewPc' = [reviewPc EXCEPT ![t] = "save item"]
         /\ items' = [items EXCEPT ![t] = Naming(items[t], about[t], i)]
         /\ list' = [list EXCEPT ![t] = NoRemovals] /\ id' = [id EXCEPT ![t] = 0]
         /\ UNCHANGED <<about, choice>>
    ELSE End(t)

FindOpen(t) ==
    /\ reviewPc[t] = "find"
    /\ \E i \in Ids : /\ Open(removals[i], about[t])
                      /\ \A j \in 1..(i - 1) : ~Open(removals[j], about[t])
                      /\ Answer(t, i)
    /\ UNCHANGED <<noted, house, removals, taken, ghosts, allowances>>

FindNone(t) ==
    /\ \A i \in Ids : ~Open(removals[i], about[t])
    /\ taken < MaxIds
    /\ Go(t, "find", "load") /\ taken' = taken + 1 /\ id' = [id EXCEPT ![t] = taken']
    /\ UNCHANGED <<noted, house, removals, about, choice, items, list, ghosts, allowances>>

\* The automation cannot be found in Home Assistant any more.
FindGone(t) ==
    /\ reviewPc[t] = "find" /\ SpendReview({"blind"}) /\ End(t)
    /\ UNCHANGED <<noted, house, removals, taken, ghosts>>

LoadToAppend(t) ==
    /\ Go(t, "load", "save proposal")
    /\ list' = [list EXCEPT ![t] =
           [removals EXCEPT ![id[t]] = [status |-> "pending", of |-> about[t]]]]
    /\ UNCHANGED <<noted, house, removals, about, id, choice, items, taken, ghosts, allowances>>

SaveProposal(t) ==
    /\ reviewPc[t] = "save proposal" /\ removals' = list[t] /\ Answer(t, id[t])
    /\ UNCHANGED <<noted, house, taken, ghosts, allowances>>

-----------------------------------------------------------------------------
(* review_removal.                                                         *)

Decided(i, s) == [removals[i] EXCEPT !.status = s]

\* Only a proposal that waits is decided on; any other is answered as it is.
Reviewable(i) == removals[i].status = "pending"

ReviewRemoval(t, i, s) ==
    /\ Reviewable(i)
    /\ Begin(t, "save verdict", {})
    /\ id' = [id EXCEPT ![t] = i]
    /\ list' = [list EXCEPT ![t] = [removals EXCEPT ![i] = Decided(i, s)]]
    /\ UNCHANGED <<noted, house, removals, about, choice, items, taken, ghosts>>

SaveVerdict(t) ==
    /\ reviewPc[t] = "save verdict" /\ removals' = list[t] /\ End(t)
    /\ verdict' = [verdict EXCEPT ![id[t]] =
           IF @ = "pending" THEN list[t][id[t]].status ELSE @]
    /\ UNCHANGED <<noted, house, taken, decided, allowances>>

-----------------------------------------------------------------------------
(* The world around.                                                       *)

\* Home Assistant's automations change; a decision about what is gone is void.
Vanish(c) ==
    /\ c \in noted /\ SpendReview({"vanish"}) /\ noted' = noted \ {c}
    /\ decided' = [decided EXCEPT ![c] = "absent"]
    /\ UNCHANGED <<house, removals, reviewPc, thread, taken, verdict>>

Reappear(c) ==
    /\ c \notin noted /\ noted' = noted \cup {c}
    /\ decided' = [decided EXCEPT ![c] = "absent"]
    /\ UNCHANGED <<house, removals, reviewPc, thread, taken, verdict, allowances>>

RestartService ==
    /\ SpendReview({"crash"})
    /\ reviewPc' = [t \in Threads |-> "idle"] /\ about' = [t \in Threads |-> Nobody]
    /\ id' = [t \in Threads |-> 0] /\ choice' = [t \in Threads |-> "keep"]
    /\ items' = [t \in Threads |-> NoItems] /\ list' = [t \in Threads |-> NoRemovals]
    /\ UNCHANGED <<noted, house, removals, taken, ghosts>>

ReviewNext ==
    \/ \E t \in Threads :
        \/ ScanHousekeeping(t) \/ ScanBlind(t) \/ SaveScan(t) \/ SaveItem(t)
        \/ FindOpen(t) \/ FindNone(t) \/ FindGone(t) \/ LoadToAppend(t) \/ SaveProposal(t) \/ SaveVerdict(t)
        \/ \E c \in Controllers : Propose(t, c) \/ \E d \in Decisions : ReviewItem(t, c, d)
        \/ \E i \in Ids, s \in {"approved", "rejected"} : ReviewRemoval(t, i, s)
    \/ \E c \in Controllers : Vanish(c) \/ Reappear(c)
    \/ RestartService

ReviewSpec == ReviewInit /\ [][ReviewNext]_reviewVars

-----------------------------------------------------------------------------
(* Properties.                                                             *)

ReviewTypeOK ==
    /\ noted \subseteq Controllers /\ house \in [Controllers -> Items] /\ removals \in [Ids -> Removals]
    /\ reviewPc \in [Threads -> {"idle", "save scan", "save item", "find", "load", "save proposal", "save verdict"}]
    /\ about \in [Threads -> Controllers] /\ id \in [Threads -> 0..MaxIds]
    /\ choice \in [Threads -> Decisions] /\ items \in [Threads -> [Controllers -> Items]]
    /\ list \in [Threads -> [Ids -> Removals]] /\ taken \in 0..MaxIds
    /\ decided \in [Controllers -> ItemStates \cup {"absent"}] /\ verdict \in [Ids -> RemovalStates]
    /\ {reviewBudget, allowed} \subseteq [ReviewMishaps -> Nat]

\* The first decision on a removal proposal that was answered is the one the
\* list shows ever after.
VerdictIsKept ==
    \A i \in Ids : verdict[i] # "pending" => removals[i].status = verdict[i]

\* The decision on a suggestion survives every scan while its reason lasts, if the
\* scans can read the automations.
DecisionIsKept ==
    allowed["blind"] = 0 => \A c \in noted : decided[c] # "absent" => house[c].status = decided[c]

\* An automation has at most one proposal that waits for a review or is approved.
OneOpenProposal ==
    \A i, j \in Ids : removals[i].of = removals[j].of
                       /\ {removals[i].status, removals[j].status} \subseteq {"pending", "approved"} => i = j

\* A suggestion shown as proposed for removal has its proposal in the list,
\* also after a crash between the two files.
ProposalIsListed ==
    \A c \in Controllers : house[c].status = "removal_proposed" =>
        /\ house[c].proposal # 0 /\ removals[house[c].proposal].status # "none"
        /\ removals[house[c].proposal].of = c

\* What administrators decided is kept, with one request at a time: a decision on
\* a proposal stays and an automation has one open proposal; a suggestion shown
\* as proposed for removal has its proposal, also after a crash; and a decision on
\* a suggestion survives later scans that can read the automations.
DecisionsAreKept ==
    /\ ReviewTypeOK
    /\ allowed["overlap"] = 0 => VerdictIsKept /\ DecisionIsKept /\ OneOpenProposal /\ ProposalIsListed
=============================================================================
