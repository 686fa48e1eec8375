------------------------------ MODULE PrintfLog ------------------------------
(***************************************************************************)
(* What printf promises a kernel and the host, without buffer, words or    *)
(* counter.  Calls are made in some order (the field start of a call); a   *)
(* call is either printed, once and for ever, and told 0, or refused and   *)
(* told -1.  The log keeps a prefix of the order: a call is never printed  *)
(* when one before it was refused.                                         *)
(***************************************************************************)
EXTENDS Integers

CONSTANT Calls

VARIABLES called, log, results

logVars == <<called, log, results>>

Answered(c) == \E r \in {0, -1} : <<c, r>> \in results

LogTypeOK ==
    /\ called \subseteq Calls
    /\ log \subseteq called
    /\ results \subseteq called \X {0, -1}

LogInit == called = {} /\ log = {} /\ results = {}

Call(c) ==
    /\ \A d \in called : d.start < c.start
    /\ called' = called \cup {c}
    /\ UNCHANGED <<log, results>>

PrintRecord(c) ==
    /\ c \in called
    /\ ~Answered(c)
    /\ \A d \in called : d.start < c.start => <<d, -1>> \notin results
    /\ log' = log \cup {c}
    /\ results' = results \cup {<<c, 0>>}
    /\ UNCHANGED called

Refuse(c) ==
    /\ c \in called'
    /\ ~Answered(c)
    /\ \A d \in called : c.start < d.start => d \notin log
    /\ results' = results \cup {<<c, -1>>}
    /\ UNCHANGED log

\* A call may be refused in the step that makes it.
CallRefused(c) ==
    /\ \A d \in called : d.start < c.start
    /\ called' = called \cup {c}
    /\ Refuse(c)

LogNext ==
    \E c \in Calls :
        \/ Call(c)
        \/ PrintRecord(c)
        \/ Refuse(c) /\ UNCHANGED called
        \/ CallRefused(c)

LogSpec == LogInit /\ [][LogNext]_logVars
=============================================================================
