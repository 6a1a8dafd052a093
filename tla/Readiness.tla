------------------------------ MODULE Readiness -----------------------------
(***************************************************************************)
(* /readyz with a required secret file (src/app.mjs:53-61 and             *)
(* src/workload.mjs): each request opens the path again, looks at the open *)
(* file and reads one byte, while the CSI driver replaces, truncates or    *)
(* removes what the path names.  JavaScript runs the handler to its end,   *)
(* so a signal is handled between two requests; the file system waits for  *)
(* nobody.                                                                 *)
(***************************************************************************)
EXTENDS Naturals, FiniteSets

CONSTANTS File,       \* file objects (inodes)
          None,       \* no file
          MaxChanges  \* bound: changes of the mount

ASSUME ReadinessAssumption == None \notin File /\ MaxChanges \in Nat

VARIABLES
    path,     \* the object the path names now, or None
    kind,     \* kind[f]: full or empty regular file, or something else
    readyFlag, \* app.mjs: the flag stop() clears
    pc,       \* where the handler is: idle, open, stat, read, send
    fd,       \* the object `descriptor` refers to, or None
    open,     \* objects held open by the process
    good,     \* the value the check is about to return
    answer,   \* the last answer: none, ready, unavailable, draining
    sawFull,  \* history: during this request, the path named a full file
    sawBad,   \* history: it named none, the open file changed, or a call on it failed
    changes   \* changes of the mount so far

mount         == <<path, kind, changes>>
handler       == <<pc, fd, open, good, answer>>
readinessVars == <<mount, readyFlag, handler, sawFull, sawBad>>

Kinds == {"full", "empty", "other"}

ReadinessTypeOK ==
    /\ path \in File \cup {None}
    /\ kind \in [File -> Kinds]
    /\ readyFlag \in BOOLEAN /\ good \in BOOLEAN
    /\ pc \in {"idle", "open", "stat", "read", "send"}
    /\ fd \in File \cup {None}
    /\ open \subseteq File
    /\ answer \in {"none", "ready", "unavailable", "draining"}
    /\ sawFull \in BOOLEAN /\ sawBad \in BOOLEAN
    /\ changes \in 0..MaxChanges

Full(p, k) == p # None /\ k[p] = "full"

ReadinessInit ==
    /\ path \in File \cup {None}
    /\ kind \in [File -> Kinds]
    /\ readyFlag = TRUE
    /\ pc = "idle" /\ fd = None /\ open = {} /\ good = FALSE /\ answer = "none"
    /\ sawFull = FALSE /\ sawBad = FALSE
    /\ changes = 0

-----------------------------------------------------------------------------
(* The handler                                                             *)

Request ==
    /\ pc = "idle"
    /\ IF readyFlag THEN pc' = "open" /\ UNCHANGED answer
                ELSE answer' = "draining" /\ UNCHANGED pc
    /\ sawFull' = Full(path, kind)
    /\ sawBad' = ~Full(path, kind)
    /\ UNCHANGED <<mount, readyFlag, fd, open, good>>

\* openSync; the catch answers false, also when there is a file but no
\* descriptor left or no permission.
OpenFile ==
    /\ pc = "open"
    /\ good' = FALSE
    /\ \/ path # None /\ fd' = path /\ open' = open \cup {path} /\ pc' = "stat"
          /\ UNCHANGED sawBad
       \/ pc' = "send" /\ sawBad' = TRUE /\ UNCHANGED <<fd, open>>
    /\ UNCHANGED <<mount, readyFlag, answer, sawFull>>

\* fstatSync or readSync throws, on a file of any kind: the catch answers false
\* with the descriptor still open.
Throws ==
    /\ pc' = "send" /\ good' = FALSE
    /\ sawBad' = TRUE
    /\ UNCHANGED <<mount, readyFlag, fd, open, answer, sawFull>>

\* fstatSync(descriptor).isFile()
Stat ==
    /\ pc = "stat"
    /\ \/ /\ pc' = IF kind[fd] = "other" THEN "send" ELSE "read"
          /\ UNCHANGED <<mount, readyFlag, fd, open, good, answer, sawFull, sawBad>>
       \/ Throws

\* Mutant: an empty file counts.
ReadNothing ==
    /\ pc = "read"
    /\ pc' = "send"
    /\ good' = TRUE
    /\ UNCHANGED <<mount, readyFlag, fd, open, answer, sawFull, sawBad>>

\* readSync(descriptor, byte, 0, 1, 0) === 1
Read ==
    /\ pc = "read"
    /\ \/ /\ pc' = "send"
          /\ good' = (kind[fd] = "full")
          /\ UNCHANGED <<mount, readyFlag, fd, open, answer, sawFull, sawBad>>
       \/ Throws

\* Mutant: the descriptor is closed only after a successful read.
SendKeepingBad ==
    /\ pc = "send"
    /\ pc' = "idle"
    /\ answer' = IF good THEN "ready" ELSE "unavailable"
    /\ open' = IF good THEN open \ {fd} ELSE open
    /\ fd' = None
    /\ UNCHANGED <<mount, readyFlag, good, sawFull, sawBad>>

\* Mutant: the test is the wrong way round.
SendInverted ==
    /\ pc = "send"
    /\ pc' = "idle"
    /\ answer' = IF good THEN "unavailable" ELSE "ready"
    /\ open' = open \ {fd}
    /\ fd' = None
    /\ UNCHANGED <<mount, readyFlag, good, sawFull, sawBad>>

\* finally closes the descriptor; the handler sends the answer.
Send ==
    /\ pc = "send"
    /\ pc' = "idle"
    /\ answer' = IF good THEN "ready" ELSE "unavailable"
    /\ open' = open \ {fd}
    /\ fd' = None
    /\ UNCHANGED <<mount, readyFlag, good, sawFull, sawBad>>

\* stop() calls setReady(false) between two requests.
Drain ==
    /\ pc = "idle" /\ readyFlag
    /\ readyFlag' = FALSE
    /\ UNCHANGED <<mount, handler, sawFull, sawBad>>

-----------------------------------------------------------------------------
(* The mount (external)                                                    *)

Observe ==
    /\ sawFull' = (sawFull \/ Full(path', kind'))
    /\ sawBad' = (sawBad \/ ~Full(path', kind') \/ (fd # None /\ kind'[fd] # "full"))

\* The path names another object, or none; a file still open keeps its content.
Rotate ==
    /\ changes < MaxChanges
    /\ changes' = changes + 1
    /\ \/ path' = None /\ UNCHANGED kind
       \/ \E f \in File \ (open \cup {path}), k \in Kinds :
             path' = f /\ kind' = [kind EXCEPT ![f] = k]
    /\ Observe
    /\ UNCHANGED <<readyFlag, handler>>

\* The file the path names is written in place.  (A writer that still holds a
\* file the path no longer names is left out.)
Rewrite ==
    /\ changes < MaxChanges
    /\ changes' = changes + 1
    /\ path # None /\ kind[path] # "other"
    /\ \E k \in {"full", "empty"} : kind' = [kind EXCEPT ![path] = k]
    /\ UNCHANGED path
    /\ Observe
    /\ UNCHANGED <<readyFlag, handler>>

ReadinessNext ==
    \/ Request \/ OpenFile \/ Stat \/ Read \/ Send \/ Drain \/ Rotate \/ Rewrite

ReadinessSpec == ReadinessInit /\ [][ReadinessNext]_readinessVars

-----------------------------------------------------------------------------
(* Properties                                                              *)

\* /readyz says ready only if, at some moment of this very request, the path
\* did name a non-empty regular file: no answer about a file of the past.
ReadyIsCurrent ==
    [][pc = "send" /\ answer' = "ready" /\ pc' = "idle" => sawFull]_readinessVars

\* 503 dependency_unavailable is never said of a mount that was usable
\* throughout the request, atomic rotations included.
NoFalseAlarm ==
    [][pc = "send" /\ answer' = "unavailable" /\ pc' = "idle" => sawBad]_readinessVars

\* Every way out of the check closes the descriptor: the probes of a pod that
\* runs for months do not exhaust its descriptors.
NoDescriptorLeak == pc = "idle" => open = {} /\ fd = None
=============================================================================
