----------------------------- MODULE TotpReplay ----------------------------
(***************************************************************************)
(* One-time codes of an officer (totp.py, migrations 016): the verifier    *)
(* reads the last accepted step, finds the step of the window whose code   *)
(* matches, and consumes it in the database.  Two functions do that, each  *)
(* with a store of its own; attempts overlap between the reading and the   *)
(* storing.                                                                *)
(***************************************************************************)
EXTENDS Integers, Sequences

CONSTANTS
    Logins,  \* attempts to log in with a code
    Window,  \* steps of skew either way
    Last     \* bound: the last step of the clock

ASSUME ParameterAssumption == Window \in {0, 1} /\ Last \in Nat

VARIABLES
    clock,          \* the step of the time
    stored,         \* the last step each function has accepted, -1: none
    accountActive,  \* the account is active
    login,          \* of each attempt: where it is, its function, the step of its code, the last step it read
    accepted        \* ghost: the steps each function has accepted, in order

codeVars == <<clock, stored, accountActive, login, accepted>>

Storers == {"consume", "claim"}
Places == {"idle", "typed", "matched", "checked", "accepted", "refused"}
Steps == 0..(Last + 1)

CodeInit ==
    /\ clock = 0 /\ stored = [f \in Storers |-> -1] /\ accountActive = TRUE
    /\ login = [l \in Logins |-> [at |-> "idle", by |-> "consume", code |-> 0, read |-> -1]]
    /\ accepted = [f \in Storers |-> <<>>]

Tick == clock < Last /\ clock' = clock + 1 /\ UNCHANGED <<stored, accountActive, login, accepted>>

SuspendAccount == accountActive /\ accountActive' = FALSE /\ UNCHANGED <<clock, stored, login, accepted>>

\* The code of a step near the present is typed, maybe one typed before; the
\* last accepted step is read.
Type(l, f, step) ==
    /\ login[l].at = "idle" /\ step \in Steps /\ step - clock \in (-1)..1
    /\ login' = [login EXCEPT ![l] = [at |-> "typed", by |-> f, code |-> step, read |-> stored[f]]]
    /\ UNCHANGED <<clock, stored, accountActive, accepted>>

Move(l, place) == login' = [login EXCEPT ![l].at = place]

\* verify_totp: a step of the window, later than the last accepted one.
VerifyTotp(l) ==
    /\ login[l].at = "typed"
    /\ Move(l, IF login[l].code - clock \in (-Window)..Window /\ login[l].code > login[l].read THEN "matched" ELSE "refused")
    /\ UNCHANGED <<clock, stored, accountActive, accepted>>

Store(l, f) ==
    /\ stored' = [stored EXCEPT ![f] = login[l].code]
    /\ accepted' = [accepted EXCEPT ![f] = Append(@, login[l].code)]
    /\ Move(l, "accepted")

Refuse(l) == Move(l, "refused") /\ UNCHANGED <<stored, accepted>>

\* Mutant: the step verified is stored whatever was stored meanwhile.
ConsumeVerified(l) ==
    /\ login[l].at = "matched" /\ login[l].by = "consume"
    /\ IF accountActive THEN Store(l, "consume") ELSE Refuse(l)
    /\ UNCHANGED <<clock, accountActive>>

\* consume_officer_totp_step: one statement checks the account and the last
\* step of the credential, and stores.
Consume(l) ==
    /\ login[l].at = "matched" /\ login[l].by = "consume"
    /\ IF accountActive /\ stored["consume"] < login[l].code THEN Store(l, "consume") ELSE Refuse(l)
    /\ UNCHANGED <<clock, accountActive>>

\* claim_totp_step checks the account in one statement ...
CheckAccount(l) ==
    /\ login[l].at = "matched" /\ login[l].by = "claim"
    /\ Move(l, IF accountActive THEN "checked" ELSE "refused")
    /\ UNCHANGED <<clock, stored, accountActive, accepted>>

\* ... and inserts or raises the last step in another.
InsertStep(l) ==
    /\ login[l].at = "checked"
    /\ IF stored["claim"] < login[l].code THEN Store(l, "claim") ELSE Refuse(l)
    /\ UNCHANGED <<clock, accountActive>>

CodeNext ==
    \/ Tick \/ SuspendAccount
    \/ \E l \in Logins :
        \/ VerifyTotp(l) \/ Consume(l) \/ CheckAccount(l) \/ InsertStep(l)
        \/ \E f \in Storers, step \in Steps : Type(l, f, step)

CodeSpec == CodeInit /\ [][CodeNext]_codeVars

-----------------------------------------------------------------------------
CodeTypeOK ==
    /\ clock \in 0..Last /\ stored \in [Storers -> Steps \cup {-1}] /\ accountActive \in BOOLEAN
    /\ login \in [Logins -> [at : Places, by : Storers, code : Steps, read : Steps \cup {-1}]]
    /\ accepted \in [Storers -> Seq(Steps)]

\* "duplicate/lower steps must be rejected" (totp.py:5): the steps a function
\* accepts go up strictly, however attempts overlap between reading the last
\* step and storing the new one.
AcceptedGoesUp ==
    \A f \in Storers : \A i, j \in DOMAIN accepted[f] : i < j => accepted[f][i] < accepted[f][j]
=============================================================================
