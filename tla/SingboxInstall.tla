--------------------------- MODULE SingboxInstall ---------------------------
(***************************************************************************)
(* Package singbox: the sing-box binary that all engines of the process    *)
(* share, and Ensure, which fetches it when it is missing.  One lock is    *)
(* held for a whole download, and one cooldown follows a failed one.       *)
(***************************************************************************)
EXTENDS Naturals

CONSTANTS
    Engines,     \* the callers: one engine per panel
    Paths,       \* where a sing-box may be
    Target,      \* where Ensure installs it
    RetryAfter,  \* length of the cooldown, in ticks
    Nobody,      \* the lock is free
    Faults,      \* kinds of fault that may happen
    MaxFaults    \* bound: how many faults happen

ASSUME InstallAssumption ==
    /\ Target \in Paths /\ Nobody \notin Engines
    /\ RetryAfter \in Nat \ {0} /\ MaxFaults \in Nat

VARIABLES
    usable,      \* host: the paths that hold a binary
    binPath,     \* binPath[e]: SingboxConfig.BinPath of the engine
    at,          \* at[e]: where the engine is in Ensure
    mu,          \* the lock, held by an engine or Nobody
    lastErr,     \* the last attempt failed
    cooldown,    \* ticks left of retryAfter since lastAttempt
    shared,      \* history: shared[e], ticks left since the last attempt e made or waited for
    faults       \* faults so far

sharedVars  == <<mu, lastErr, cooldown, shared>>
installVars == <<usable, binPath, at, sharedVars, faults>>

InstallTypeOK ==
    /\ usable \subseteq Paths /\ binPath \in [Engines -> Paths]
    /\ at \in [Engines -> {"out", "lock", "held", "install", "found", "error"}]
    /\ mu \in Engines \cup {Nobody}
    /\ \A e \in Engines : at[e] \in {"held", "install"} <=> mu = e
    /\ lastErr \in BOOLEAN /\ cooldown \in 0..RetryAfter
    /\ shared \in [Engines -> 0..RetryAfter]
    /\ faults \in 0..MaxFaults

\* A fault of this kind happens in this step.
Fault(kind) ==
    /\ kind \in Faults
    /\ faults < MaxFaults
    /\ faults' = faults + 1

NoFault == UNCHANGED faults

-----------------------------------------------------------------------------
Usable(path) == path \in usable

\* Mutant: a return that leaves the lock held.
ReturnLocked(e, result) == at' = [at EXCEPT ![e] = result] /\ UNCHANGED mu

\* Ensure returns.
Return(e, result) == at' = [at EXCEPT ![e] = result] /\ mu' = Nobody

\* The attempt that is running, by the engine that makes it.
Downloading == {c \in Engines : at[c] = "install"}

\* Call of Ensure, after Usable failed: one that comes during an attempt waits for it too.
EnsureCall(e) ==
    /\ at' = [at EXCEPT ![e] = "lock"]
    /\ \/ Downloading = {} /\ UNCHANGED shared
       \/ \E c \in Downloading : shared' = [shared EXCEPT ![e] = shared[c]]
    /\ UNCHANGED <<mu, lastErr, cooldown>>

Lock(e) ==
    /\ at[e] = "lock" /\ mu = Nobody
    /\ mu' = e
    /\ at' = [at EXCEPT ![e] = "held"]
    /\ UNCHANGED <<usable, binPath, lastErr, cooldown, shared, faults>>

\* Another engine, or the operator, installed it while we waited for the lock.
EnsureFound(e) ==
    /\ at[e] = "held" /\ (Usable(Target) \/ Usable(binPath[e]))
    /\ Return(e, "found")
    /\ binPath' = [binPath EXCEPT ![e] = IF Usable(Target) THEN Target ELSE @]
    /\ UNCHANGED <<usable, lastErr, cooldown, shared, faults>>

\* Mutant: only the engine's own path is looked at again once the lock is held.
MissingOwn(e) == at[e] = "held" /\ ~Usable(binPath[e])

\* Nothing to run: an attempt is due, unless the last one failed lately.
Missing(e) == at[e] = "held" /\ ~Usable(Target) /\ ~Usable(binPath[e])

\* Mutant: the time of the attempt is taken before the cooldown is looked at.
EnsureCoolsSliding(e) ==
    /\ Missing(e) /\ lastErr /\ cooldown > 0
    /\ Return(e, "error")
    /\ cooldown' = RetryAfter
    /\ UNCHANGED <<usable, binPath, lastErr, shared, faults>>

EnsureCools(e) ==
    /\ Missing(e) /\ lastErr /\ cooldown > 0
    /\ Return(e, "error")
    /\ UNCHANGED <<usable, binPath, lastErr, cooldown, shared, faults>>

\* lastAttempt is set, and the release fetched: everybody at the lock waits for it.  The
\* cooldown counts from here, so a download that outlasts it leaves none.
Install(e) ==
    /\ Missing(e) /\ ~(lastErr /\ cooldown > 0)
    /\ at' = [at EXCEPT ![e] = "install"]
    /\ cooldown' = RetryAfter
    /\ shared' = [c \in Engines |-> IF c = e \/ at[c] = "lock" THEN RetryAfter ELSE shared[c]]
    /\ UNCHANGED <<usable, binPath, mu, lastErr, faults>>

\* The rename: the binary is there as a whole or not at all.
InstallOK(e) ==
    /\ at[e] = "install"
    /\ usable' = usable \cup {Target}
    /\ lastErr' = FALSE
    /\ binPath' = [binPath EXCEPT ![e] = Target]
    /\ Return(e, "found")
    /\ UNCHANGED <<cooldown, shared, faults>>

InstallFails(e) ==
    /\ at[e] = "install"
    /\ Fault("install")
    /\ lastErr' = TRUE
    /\ Return(e, "error")
    /\ UNCHANGED <<usable, binPath, cooldown, shared>>

\* Time passes.
Tick ==
    /\ \/ cooldown > 0
       \/ \E e \in Engines : shared[e] > 0
    /\ cooldown' = IF cooldown > 0 THEN cooldown - 1 ELSE 0
    /\ shared' = [e \in Engines |-> IF shared[e] > 0 THEN shared[e] - 1 ELSE 0]
    /\ UNCHANGED <<usable, binPath, at, mu, lastErr, faults>>

\* The operator removes a binary.  Without the one an attempt left, the next one is due.
Uninstall(path) ==
    /\ Usable(path)
    /\ Fault("uninstall")
    /\ usable' = usable \ {path}
    /\ shared' = IF path = Target THEN [e \in Engines |-> 0] ELSE shared
    /\ UNCHANGED <<binPath, at, mu, lastErr, cooldown>>

EnsureStep(e) ==
    Lock(e) \/ EnsureFound(e) \/ EnsureCools(e) \/ Install(e) \/ InstallOK(e) \/ InstallFails(e)

-----------------------------------------------------------------------------
\* "Concurrent callers share one attempt": an engine that made a download or called Ensure
\* before its end, be it before its start, starts none itself until retryAfter has passed since
\* that start, whether the download succeeded (and its binary was not removed) or failed.
SharesAttempt ==
    [][\A e \in Engines : at[e] = "held" /\ at'[e] = "install" => shared[e] = 0]_installVars
=============================================================================
