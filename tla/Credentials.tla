----------------------------- MODULE Credentials -----------------------------
(* Provider credentials: the provider_credentials rows, the leases of their  *)
(* slots in Redis (a sorted set of tokens per credential), the workers' calls*)
(* under a lease (withCredential, RedisCredentialManager) and administrators *)
(* who edit the rows.                                                        *)
(*                                                                           *)
(* Time passes in steps of the interval of renewal, a third of a lease.      *)
(* What orders the candidates (priority, weight) is the constant Rank; those *)
(* of one rank (the last use decides) come in any order.                     *)
EXTENDS Naturals, FiniteSets

CONSTANTS Creds, Calls, Tokens, Rank, Limits, RetryAttempts, MaxDisturbances

ASSUME CredentialsAssumption ==
    /\ Rank \in [Creds -> Nat]
    /\ Limits \subseteq Nat \ {0}
    /\ RetryAttempts \in Nat \ {0}
    /\ MaxDisturbances \in Nat
    /\ "none" \notin Creds
    /\ IsFiniteSet(Tokens) /\ IsFiniteSet(Calls)
    /\ Cardinality(Tokens) >= Cardinality(Calls) + MaxDisturbances

TTL == 3
Statuses == {"ACTIVE", "COOLDOWN", "ERROR", "DISABLED"}
NoLease == [cred |-> "none"]
Idle == [at |-> "idle"]

VARIABLES
    cred,        \* rows: status ("GONE": no row), cooldown in the future, limit
    call,        \* what each worker's call is doing
    lease,       \* the tokens in the sorted sets, with the time they have left
    missed,      \* renewals a call has missed in a row, up to a whole lease
    editor,      \* the administrator's update between its read and its write
    credFaults, edits

credentialsVars == <<cred, call, lease, missed, editor, credFaults, edits>>

CredentialsInit ==
    /\ cred \in [Creds -> [status : {"ACTIVE"}, cooling : {FALSE}, limit : Limits]]
    /\ call = [w \in Calls |-> Idle]
    /\ lease = [t \in Tokens |-> NoLease]
    /\ missed = [w \in Calls |-> 0]
    /\ editor = Idle
    /\ credFaults = 0 /\ edits = 0

-----------------------------------------------------------------------------
(* The sorted sets.                                                          *)

(* now + TTL has come: the next purge removes the token.                     *)
Lapsed(t) == lease[t] # NoLease /\ lease[t].left = 0
TokensOf(c) == {t \in Tokens : lease[t].cred = c}

(* ACQUIRE and COUNT remove what has lapsed.                                 *)
PurgedTokens(c) == {t \in TokensOf(c) : ~Lapsed(t)}
Purged(c) == [t \in Tokens |-> IF t \in TokensOf(c) /\ Lapsed(t) THEN NoLease ELSE lease[t]]

Holding == {"call", "succeeded", "failed", "release"}
Holds(w, t) == call[w].at \in Holding /\ call[w].token = t

(* A token is a fresh UUID: any that is neither stored nor held will do.     *)
FreshToken == CHOOSE t \in Tokens : lease[t] = NoLease /\ \A w \in Calls : ~Holds(w, t)

-----------------------------------------------------------------------------
(* A call under a lease.                                                     *)

Selectable(c) == cred[c].status = "ACTIVE" /\ ~cred[c].cooling

withCredential(w) ==
    /\ call[w] = Idle
    /\ call' = [call EXCEPT ![w] = [at |-> "select", attempt |-> 1]]
    /\ UNCHANGED <<cred, lease, missed, editor, credFaults, edits>>

(* One query of the candidates and their limits; none: the call ends.        *)
selectCandidates(w) ==
    LET rows == [c \in {d \in Creds : Selectable(d)} |-> cred[c].limit]
    IN  /\ call[w].at = "select"
        /\ call' = [call EXCEPT ![w] =
               IF DOMAIN rows = {} THEN Idle
               ELSE [at |-> "reserve", attempt |-> @.attempt, rows |-> rows]]
        /\ UNCHANGED <<cred, lease, missed, editor, credFaults, edits>>

Foremost(rows) == {c \in DOMAIN rows : \A d \in DOMAIN rows : Rank[c] >= Rank[d]}

Given_OneMore(w, c) == Cardinality(PurgedTokens(c)) <= call[w].rows[c]
Given(w, c) == Cardinality(PurgedTokens(c)) < call[w].rows[c]

(* The script purges, counts and adds in one step; a credential that is full *)
(* is skipped.                                                               *)
tryReserveLease(w) ==
    /\ call[w].at = "reserve"
    /\ \E c \in Foremost(call[w].rows) :
          IF Given(w, c)
          THEN /\ lease' = [Purged(c) EXCEPT ![FreshToken] = [cred |-> c, left |-> TTL]]
               /\ call' = [call EXCEPT ![w] =
                      [at |-> "call", attempt |-> @.attempt, cred |-> c, token |-> FreshToken]]
               /\ missed' = [missed EXCEPT ![w] = 0]
          ELSE LET rest == DOMAIN call[w].rows \ {c}
               IN  /\ lease' = Purged(c)
                   /\ call' = [call EXCEPT ![w] =
                          IF rest = {} THEN Idle
                          ELSE [call[w] EXCEPT !.rows = [d \in rest |-> call[w].rows[d]]]]
                   /\ UNCHANGED missed
    /\ UNCHANGED <<cred, editor, credFaults, edits>>

Goes(w, at) == call' = [call EXCEPT ![w].at = at]
ThenEnds(w) == call' = [call EXCEPT ![w] =
                   [at |-> "release", attempt |-> RetryAttempts, cred |-> @.cred, token |-> @.token]]

(* The provider answers; errors that are not the key's own, and a secret that*)
(* can not be decrypted, end the call.                                       *)
Answers(w) ==
    /\ call[w].at = "call"
    /\ Goes(w, "succeeded") \/ Goes(w, "failed") \/ ThenEnds(w)
    /\ UNCHANGED <<cred, lease, missed, editor, credFaults, edits>>

Marked(c, status, cooling) ==
    cred' = IF cred[c].status = "GONE" THEN cred
            ELSE [cred EXCEPT ![c] = [cred[c] EXCEPT !.status = status, !.cooling = cooling]]

(* markSuccess: whatever the row says by now.                                *)
markSuccess(w) ==
    /\ call[w].at = "succeeded"
    /\ Marked(call[w].cred, "ACTIVE", FALSE)
    /\ ThenEnds(w)
    /\ UNCHANGED <<lease, missed, editor, credFaults, edits>>

(* markFailure: rate limited, or refused; the next attempt takes another key.*)
markFailure(w) ==
    /\ call[w].at = "failed"
    /\ \/ Marked(call[w].cred, "COOLDOWN", TRUE)
       \/ Marked(call[w].cred, "ERROR", cred[call[w].cred].cooling)
    /\ Goes(w, "release")
    /\ UNCHANGED <<lease, missed, editor, credFaults, edits>>

(* The finally clause: ZREM of the own token, then the next attempt.         *)
release_OnlyInTheEnd(w) ==
    /\ call[w].at = "release"
    /\ lease' = IF call[w].attempt < RetryAttempts THEN lease
                ELSE [lease EXCEPT ![call[w].token] = NoLease]
    /\ call' = [call EXCEPT ![w] =
           IF @.attempt < RetryAttempts THEN [at |-> "select", attempt |-> @.attempt + 1] ELSE Idle]
    /\ UNCHANGED <<cred, missed, editor, credFaults, edits>>

release(w) ==
    /\ call[w].at = "release"
    /\ lease' = [lease EXCEPT ![call[w].token] = NoLease]
    /\ call' = [call EXCEPT ![w] =
           IF @.attempt < RetryAttempts THEN [at |-> "select", attempt |-> @.attempt + 1] ELSE Idle]
    /\ UNCHANGED <<cred, missed, editor, credFaults, edits>>

(* The worker dies, and its token stays; or marking meets an error.          *)
Fault(w) ==
    /\ call[w] # Idle
    /\ credFaults + edits < MaxDisturbances
    /\ credFaults' = credFaults + 1
    /\ \/ call' = [call EXCEPT ![w] = Idle]
       \/ call[w].at \in {"succeeded", "failed"} /\ ThenEnds(w)
    /\ UNCHANGED <<cred, lease, missed, editor, edits>>

-----------------------------------------------------------------------------
(* A third of a lease passes: calls renew the token they find in the set     *)
(* (those in Late miss this renewal), other tokens get older, and a set in   *)
(* which nothing lives expires as a whole.                                   *)
Renews(w, Late) == w \notin Late /\ call[w].at \in Holding /\ lease[call[w].token] # NoLease

Tick(Late) ==
    LET aged == [t \in Tokens |->
            IF lease[t] = NoLease THEN NoLease
            ELSE IF \E w \in Calls : Holds(w, t) /\ Renews(w, Late) THEN [lease[t] EXCEPT !.left = TTL]
            ELSE IF lease[t].left > 0 THEN [lease[t] EXCEPT !.left = @ - 1]
            ELSE lease[t]]
    IN  /\ \E t \in Tokens : lease[t] # NoLease
        /\ Late # {} => credFaults + edits < MaxDisturbances
        /\ credFaults' = IF Late # {} THEN credFaults + 1 ELSE credFaults
        /\ lease' = [t \in Tokens |->
               IF aged[t] # NoLease /\ \A u \in TokensOf(aged[t].cred) : aged[u].left = 0
               THEN NoLease ELSE aged[t]]
        /\ missed' = [w \in Calls |->
               IF call[w].at \notin Holding \/ Renews(w, Late) THEN 0
               ELSE IF missed[w] < TTL THEN missed[w] + 1 ELSE TTL]
        /\ UNCHANGED <<cred, call, editor, edits>>

(* cooldown_until passes; nothing touches the status.                        *)
CoolsDown(c) ==
    /\ cred[c].cooling
    /\ cred' = [cred EXCEPT ![c].cooling = FALSE]
    /\ UNCHANGED <<call, lease, missed, editor, credFaults, edits>>

-----------------------------------------------------------------------------
(* The administrator: update reads the row and writes all of it back, with   *)
(* the cooldown it read (unless it is cleared, or has passed by now).        *)

EditRead(c) ==
    /\ editor = Idle /\ credFaults + edits < MaxDisturbances
    /\ cred[c].status # "GONE"
    /\ editor' = [at |-> "write", cred |-> c, row |-> cred[c]]
    /\ edits' = edits + 1
    /\ UNCHANGED <<cred, call, lease, missed, credFaults>>

EditWrite ==
    /\ editor.at = "write"
    /\ \E status \in Statuses \cup {editor.row.status}, limit \in Limits, cooling \in {FALSE, editor.row.cooling} :
          cred' = IF cred[editor.cred].status = "GONE" THEN cred
                  ELSE [cred EXCEPT ![editor.cred] = [status |-> status, cooling |-> cooling, limit |-> limit]]
    /\ editor' = Idle
    /\ UNCHANGED <<call, lease, missed, credFaults, edits>>

remove(c) ==
    /\ credFaults + edits < MaxDisturbances /\ edits' = edits + 1
    /\ cred[c].status # "GONE"
    /\ cred' = [cred EXCEPT ![c].status = "GONE"]
    /\ UNCHANGED <<call, lease, missed, editor, credFaults>>

CallStep(w) ==
    \/ withCredential(w) \/ selectCandidates(w) \/ tryReserveLease(w) \/ Answers(w)
    \/ markSuccess(w) \/ markFailure(w) \/ release(w)

CredentialsNext ==
    \/ \E w \in Calls : CallStep(w) \/ Fault(w)
    \/ \E Late \in SUBSET {w \in Calls : call[w].at \in Holding} : Tick(Late)
    \/ \E c \in Creds : CoolsDown(c) \/ EditRead(c) \/ remove(c)
    \/ EditWrite

CredentialsSpec == CredentialsInit /\ [][CredentialsNext]_credentialsVars

(* Workers have calls to make and time goes on.                              *)
CredentialsFairness ==
    /\ \A w \in Calls : WF_credentialsVars(CallStep(w))
    /\ \A c \in Creds : WF_credentialsVars(CoolsDown(c))
    /\ WF_credentialsVars(Tick({}))

-----------------------------------------------------------------------------
(* Properties.                                                               *)

(* No slot leaks and none is taken away: a token in a set belongs to a call  *)
(* that runs, save for those of dead workers, and a call that has not missed *)
(* a whole lease of renewals still has its token                             *)
(* (redis-credential-manager.ts:96-118, 263-279; pipeline.ts:397-422).       *)
LeasesAreCalls ==
    /\ Cardinality({t \in Tokens : lease[t] # NoLease /\ \A w \in Calls : ~Holds(w, t)}) <= credFaults
    /\ \A w \in Calls : call[w].at \in Holding /\ missed[w] < TTL =>
          lease[call[w].token] # NoLease /\ lease[call[w].token].cred = call[w].cred

(* A slot is given exactly when fewer calls than the limit the worker has    *)
(* read hold one, not counting what a lapsed lease left behind: neither are  *)
(* there too many calls, nor does a dead worker block a credential           *)
(* (redis-credential-manager.ts:33-36, 236-252).                             *)
InUse(c) == {t \in Tokens : lease[t].cred = c /\ lease[t].left > 0}
Keeping(c) == {w \in Calls : call[w].at \in Holding /\ call[w].cred = c /\ missed[w] < TTL}
Asks(w, c) == call[w].at = "reserve" /\ c \in DOMAIN call[w].rows
Gets(w, c) == call'[w].at = "call" /\ call'[w].cred = c
IsRefused(w, c) ==
    /\ tryReserveLease(w)
    /\ \/ call'[w] = Idle
       \/ call'[w].at = "reserve" /\ c \notin DOMAIN call'[w].rows
SlotGivenIffFree ==
    [][\A w \in Calls, c \in Creds : Asks(w, c) =>
          /\ Gets(w, c) => Cardinality(Keeping(c)') <= call[w].rows[c]
          /\ IsRefused(w, c) => Cardinality(InUse(c)) >= call[w].rows[c]
      ]_credentialsVars

(* credential-manager.interface.ts:6, the manager is responsible for         *)
(* "cooldown, error tracking, automatic recovery": a credential that was     *)
(* rate limited is used again.                                               *)
CooledDownComesBack ==
    \A c \in Creds : cred[c].status = "COOLDOWN" ~> cred[c].status # "COOLDOWN"
=============================================================================
