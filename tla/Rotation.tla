------------------------------- MODULE Rotation -------------------------------
(* Rotation of the credential of one BackendSecurityPolicy.  The controller  *)
(* finds the time of the next rotation in an annotation of the secret, which *)
(* it reads from a cache; it rotates the credential when that time is past,  *)
(* and else asks to be called again at that time.  A reconcile that fails is *)
(* repeated soon, one that succeeds only when its timer fires or the policy  *)
(* or its secret changes.                                                    *)
EXTENDS Integers

CONSTANTS Kinds,       \* "late": the provider is only asked for a token (AWS);
                       \* "early": also when the rotator is made (Azure, GCP)
          Window,      \* preRotationWindow
          Lifetimes,   \* of the tokens a provider gives
          Second,      \* the unit of the annotation, in units of the clock
          Coincidence, \* whether the time of the rotation may come between the check
                       \* of it and the computation of the timer
          Horizon, MaxFaults, MaxEdits

(* Times are natural numbers, there is a longest lifetime, and a credential  *)
(* is rotated some time before it expires.                                   *)
ASSUME RotationAssumption ==
  /\ Horizon \in Nat /\ Window \in Nat \ {0} /\ Second \in Nat \ {0}
  /\ Lifetimes \subseteq Nat /\ \E m \in Lifetimes : \A l \in Lifetimes : l <= m

VARIABLES kind, now,
          credential, \* in the API server: [exp, rv, owned], rv = 0 if it is not there
          cached,     \* the cache of it
          inQueue,    \* whether the policy is in the workqueue
          wake,       \* when its timer fires
          work,       \* the reconcile: [pc, exp, wake]
          served,     \* when the credential that the gateway uses expires
          faults, edits

rotation == <<kind, now, credential, cached, inQueue, wake, work, served, faults, edits>>

Longest == CHOOSE m \in Lifetimes : \A l \in Lifetimes : l <= m
Never == Horizon + Longest + 1
NoSecret == [exp |-> 0, rv |-> 0, owned |-> FALSE]
NoWork == [pc |-> "idle", exp |-> 0, wake |-> Never]
Secret == [exp : Nat, rv : Nat, owned : BOOLEAN]

(* No timer is set for later than the rotation of a token could be, and the  *)
(* cache holds the secret as it is or as it was.                             *)
RotationTypeOK ==
  /\ kind \in Kinds /\ now \in 0..Horizon
  /\ credential \in Secret /\ cached \in Secret /\ cached.rv <= credential.rv
  /\ cached.rv = credential.rv => cached = credential
  /\ inQueue \in BOOLEAN
  /\ wake = Never \/ \E l \in Lifetimes : wake <= now + l - Window
  /\ work \in [pc : {"idle", "token", "write", "own", "sync"}, exp : Nat, wake : 0..Never]
  /\ served \in Nat

RotationInit ==
  /\ kind \in Kinds /\ now = 0
  /\ credential = NoSecret /\ cached = NoSecret
  /\ inQueue = TRUE /\ wake = Never /\ work = NoWork /\ served = 0
  /\ faults = 0 /\ edits = 0

-----------------------------------------------------------------------------
RotationTime(s) == s.exp - Window

(* What IsExpired may say of the time in the secret or of no time: at the    *)
(* time itself, which lasts a unit of the clock here, either.                *)
IsExpired(s) == IF s.rv = 0 \/ RotationTime(s) < now THEN {TRUE}
                ELSE IF RotationTime(s) > now THEN {FALSE} ELSE {TRUE, FALSE}

(* Time passes only when nothing is left to do: a reconcile, its retries and *)
(* the delay of the cache are short beside the lifetime of a token.          *)
Tick ==
  /\ now < Horizon /\ work = NoWork /\ ~inQueue /\ cached = credential /\ now <= wake
  /\ now' = now + 1
  /\ UNCHANGED <<kind, credential, cached, inQueue, wake, work, served, faults, edits>>

Fire ==
  /\ wake < now
  /\ wake' = Never /\ inQueue' = TRUE
  /\ UNCHANGED <<kind, now, credential, cached, work, served, faults, edits>>

(* The user edits the policy.                                                *)
Edit ==
  /\ edits < MaxEdits /\ edits' = edits + 1
  /\ inQueue' = TRUE
  /\ UNCHANGED <<kind, now, credential, cached, wake, work, served, faults>>

(* The cache gets the secret; the policy that owns it is reconciled.         *)
WatchSecret ==
  /\ cached # credential /\ cached' = credential
  /\ inQueue' = (inQueue \/ credential.owned)
  /\ UNCHANGED <<kind, now, credential, wake, work, served, faults, edits>>

-----------------------------------------------------------------------------
(* The reconcile fails and will be repeated, whatever timer it had in mind.  *)
Fails ==
  /\ work' = NoWork /\ inQueue' = TRUE
  /\ UNCHANGED <<kind, now, cached, wake, served, edits>>

Faulty == faults < MaxFaults /\ faults' = faults + 1

(* executeRotation, up to the decision.  A timer whose time has come is none.*)
Begin(expired) ==
  /\ work = NoWork /\ inQueue /\ inQueue' = FALSE
  /\ expired \in IsExpired(cached)
  /\ work' = IF expired THEN [NoWork EXCEPT !.pc = "token"]
            ELSE [NoWork EXCEPT !.pc = "own",
                    !.wake = IF Coincidence /\ RotationTime(cached) = now THEN Never ELSE RotationTime(cached)]
  /\ UNCHANGED <<kind, now, credential, cached, wake, served, faults, edits>>

(* The rotator cannot be made: its provider does not answer.                 *)
NoRotator ==
  /\ work = NoWork /\ inQueue /\ kind = "early" /\ Faulty
  /\ Fails /\ UNCHANGED credential

(* Rotate: a token, which the provider may refuse, or give when it has hardly*)
(* any time left.                                                            *)
GetToken(l) ==
  /\ work.pc = "token"
  /\ work' = [work EXCEPT !.pc = "write", !.exp = now + l]
  /\ IF l > Window THEN UNCHANGED faults ELSE Faulty
  /\ UNCHANGED <<kind, now, credential, cached, inQueue, wake, served, edits>>

NoToken == work.pc = "token" /\ Faulty /\ Fails /\ UNCHANGED credential

(* The secret is created if the cache has none, and else updated from what   *)
(* the cache has: the API server refuses both if the cache is behind.  A     *)
(* token that is due for rotation already is an error, once it is written.   *)
(* The annotation holds the expiry in whole seconds.                         *)
WriteQuietly ==
  /\ work.pc = "write" /\ cached.rv = credential.rv
  /\ credential' = [credential EXCEPT !.exp = (work.exp \div Second) * Second, !.rv = @ + 1]
  /\ work' = NoWork /\ wake' = work.exp - Window
  /\ UNCHANGED <<kind, now, cached, inQueue, served, faults, edits>>

Write ==
  LET due == work.exp - Window
  IN  /\ work.pc = "write" /\ cached.rv = credential.rv
      /\ credential' = [credential EXCEPT !.exp = (work.exp \div Second) * Second, !.rv = @ + 1]
      /\ IF due > now
         THEN work' = [work EXCEPT !.pc = "own", !.wake = due]
                /\ UNCHANGED <<kind, now, cached, inQueue, wake, served, faults, edits>>
         ELSE Fails /\ UNCHANGED faults

WriteRefused == work.pc = "write" /\ cached.rv # credential.rv /\ Fails /\ UNCHANGED <<credential, faults>>

WriteFails == work.pc \in {"write", "own"} /\ Faulty /\ Fails /\ UNCHANGED credential

(* The secret, looked up in the cache, gets the policy as its owner.         *)
Own ==
  /\ work.pc = "own" /\ cached.rv > 0
  /\ cached.owned \/ cached.rv = credential.rv
  /\ credential' = IF cached.owned THEN credential ELSE [credential EXCEPT !.owned = TRUE, !.rv = @ + 1]
  /\ work' = [work EXCEPT !.pc = "sync"]
  /\ UNCHANGED <<kind, now, cached, inQueue, wake, served, faults, edits>>

NotOwned ==
  /\ work.pc = "own" /\ (cached.rv = 0 \/ (~cached.owned /\ cached.rv # credential.rv))
  /\ Fails /\ UNCHANGED <<credential, faults>>

(* The backends of the policy are notified, and the gateway reads the        *)
(* secret; the timer is set, unless an earlier one is.                       *)
Sync ==
  /\ work.pc = "sync" /\ work' = NoWork
  /\ served' = credential.exp
  /\ wake' = IF work.wake < wake THEN work.wake ELSE wake
  /\ UNCHANGED <<kind, now, credential, cached, inQueue, faults, edits>>

RotationNext ==
  \/ Tick \/ Fire \/ Edit \/ WatchSecret
  \/ \E expired \in BOOLEAN : Begin(expired)
  \/ NoRotator
  \/ \E l \in Lifetimes : GetToken(l)
  \/ NoToken \/ Write \/ WriteRefused \/ WriteFails \/ Own \/ NotOwned \/ Sync

RotationSpec == RotationInit /\ [][RotationNext]_rotation

-----------------------------------------------------------------------------
Resting == work = NoWork /\ ~inQueue /\ cached = credential

(* Between reconciles there is always a call to come, and it comes no later  *)
(* than the rotation is due by the annotation (executeRotation): whatever    *)
(* failed before, however far the cache was behind when the timer was set.   *)
NextRotationScheduled == Resting => wake <= RotationTime(credential)

(* The credential that the gateway uses has not expired when time passes:    *)
(* every failure is retried, and every rotation ends in a notification of    *)
(* the gateway (rotateCredential, then syncBackendSecurityPolicy).           *)
ServesValidCredential == Resting /\ now <= wake => served > now

(* A credential is kept: both of these (executeRotation).                    *)
CredentialsKept == NextRotationScheduled /\ ServesValidCredential
=============================================================================
