--------------------------- MODULE PersonalProfiles ---------------------------
(***************************************************************************)
(* The user's profiles, of which a new task takes its contract, and the    *)
(* long-term memory that preference candidates may enter                   *)
(* (RS/commands/privacy.rs, RS/storage/mod.rs).  Each command runs on the  *)
(* window's thread as statements of their own under one lock, with no      *)
(* transaction: any of them may be the last one.                           *)
(***************************************************************************)
EXTENDS Naturals

CONSTANTS Profiles, Default,  \* ids of profiles, and the one that is always there
          Candidates,         \* ids of preference candidates
          MaxMemories         \* bound: memory items ever written

ASSUME ProfileAssumption == Default \in Profiles /\ MaxMemories \in Nat

VARIABLES op,         \* what the window's thread is doing
          profiles,   \* personal_profiles: is_active
          candidates, \* preference_candidates
          memories    \* memory_items, and those that were deleted

profileVars == <<profiles, candidates, memories>>

Free      == [step |-> "idle"]
NoMemory  == 0
MemoryIds == 1..MaxMemories
NoCandidate == [status |-> "none", memory |-> NoMemory]

ProfilesInit ==
    /\ op = Free
    /\ profiles = [p \in Profiles |-> IF p = Default THEN "active" ELSE "none"]
    /\ candidates = [c \in Candidates |-> NoCandidate]
    /\ memories = [m \in MemoryIds |-> "new"]

Existing == {p \in Profiles : profiles[p] # "none"}
Active   == {p \in Profiles : profiles[p] = "active"}
UiFree   == op = Free

-----------------------------------------------------------------------------
(* Profiles.                                                               *)

\* Mutant: a profile that is to be activated is saved as active.
CreateActive(p, activate) ==
    /\ UiFree /\ Active # {}
    /\ profiles' = [profiles EXCEPT ![p] = IF activate THEN "active" ELSE "inactive"]
    /\ op' = IF activate THEN [step |-> "activate", profile |-> p] ELSE Free
    /\ UNCHANGED <<candidates, memories>>

\* What is not given is taken of the active profile, so there must be one.
\* A profile that has the id already is overwritten.
ProfileCreate(p, activate) ==
    /\ UiFree /\ Active # {}
    /\ profiles' = [profiles EXCEPT ![p] = "inactive"]
    /\ op' = IF activate THEN [step |-> "activate", profile |-> p] ELSE Free
    /\ UNCHANGED <<candidates, memories>>

ProfileUpdate(p, activate) ==
    /\ UiFree /\ p \in Existing
    /\ op' = IF activate THEN [step |-> "activate", profile |-> p] ELSE Free
    /\ UNCHANGED profileVars

ActivateOnly(p) == [q \in Profiles |-> IF q \notin Existing THEN "none"
                                        ELSE IF q = p THEN "active" ELSE "inactive"]

ProfileActivate(p) ==
    /\ UiFree /\ p \in Existing
    /\ profiles' = ActivateOnly(p)
    /\ UNCHANGED <<op, candidates, memories>>

ActivateSaved ==
    /\ op.step = "activate"
    /\ profiles' = ActivateOnly(op.profile)
    /\ op' = Free
    /\ UNCHANGED <<candidates, memories>>

\* ensure_default_active_profile, at each start.
WithDefault == IF Active = {} THEN ActivateOnly(Default) ELSE profiles

-----------------------------------------------------------------------------
(* Preference candidates and memory.                                       *)

\* The lowest id that was never used: ids are random, so never used again.
Unused(m) == memories[m] = "new" /\ \A n \in 1..m-1 : memories[n] # "new"

CandidateCreate(c, blocked) ==
    /\ UiFree /\ candidates[c].status = "none"
    /\ candidates' = [candidates EXCEPT ![c].status = IF blocked THEN "blocked" ELSE "pending"]
    /\ UNCHANGED <<op, profiles, memories>>

\* Mutant: the candidate is decided before its value is written.
AcceptFirst(c) ==
    /\ UiFree /\ candidates[c].status # "none"
    /\ \E m \in MemoryIds :
          /\ Unused(m)
          /\ candidates' = [candidates EXCEPT ![c] = [status |-> "accepted", memory |-> m]]
    /\ op' = Free
    /\ UNCHANGED <<profiles, memories>>

\* A blocked candidate is refused; any other may be decided again.
AcceptCandidate(c) ==
    /\ UiFree /\ candidates[c].status \notin {"none", "blocked"}
    /\ \E m \in MemoryIds :
          /\ Unused(m)
          /\ memories' = [memories EXCEPT ![m] = "kept"]
          /\ op' = [step |-> "decide", candidate |-> c, memory |-> m]
    /\ UNCHANGED <<profiles, candidates>>

DecideAccepted ==
    /\ op.step = "decide"
    /\ candidates' = [candidates EXCEPT ![op.candidate] =
                         [status |-> "accepted", memory |-> op.memory]]
    /\ op' = Free
    /\ UNCHANGED <<profiles, memories>>

\* Rejected or suppressed.  No decision resets the flag of a blocked one, so
\* here it stays "blocked".
RejectCandidate(c) ==
    /\ UiFree /\ candidates[c].status # "none"
    /\ candidates' = [candidates EXCEPT ![c] =
          [status |-> IF @.status = "blocked" THEN "blocked" ELSE "rejected",
           memory |-> NoMemory]]
    /\ UNCHANGED <<op, profiles, memories>>

\* A value that the privacy policy blocks is refused before.
SaveMemoryItem ==
    /\ UiFree
    /\ \E m \in MemoryIds :
          Unused(m) /\ memories' = [memories EXCEPT ![m] = "kept"]
    /\ UNCHANGED <<op, profiles, candidates>>

DeleteMemoryItem(m) ==
    /\ UiFree
    /\ memories[m] = "kept"
    /\ memories' = [memories EXCEPT ![m] = "deleted"]
    /\ UNCHANGED <<op, profiles, candidates>>

\* The statement that was to follow fails.
StatementFails ==
    /\ op.step \in {"activate", "decide"}
    /\ op' = Free
    /\ UNCHANGED profileVars

ProfilesNext ==
    \/ \E p \in Profiles : \/ \E activate \in BOOLEAN :
                                 ProfileCreate(p, activate) \/ ProfileUpdate(p, activate)
                           \/ ProfileActivate(p)
    \/ ActivateSaved
    \/ \E c \in Candidates : \/ \E blocked \in BOOLEAN : CandidateCreate(c, blocked)
                             \/ AcceptCandidate(c) \/ RejectCandidate(c)
    \/ DecideAccepted \/ SaveMemoryItem \/ StatementFails
    \/ \E m \in MemoryIds : DeleteMemoryItem(m)

-----------------------------------------------------------------------------
\* Two profiles are never active at once, whichever of the statements that
\* save one and activate it is the last.
AtMostOneActive == \A p, q \in Active : p = q

\* An accepted candidate names a value that was written for it, which the
\* user may have deleted since; one that was blocked never names any.
AcceptedIsRemembered ==
    \A c \in Candidates :
        /\ candidates[c].status = "accepted" =>
               candidates[c].memory \in MemoryIds
                  /\ memories[candidates[c].memory] \in {"kept", "deleted"}
        /\ candidates[c].status = "blocked" => candidates[c].memory = NoMemory
=============================================================================
