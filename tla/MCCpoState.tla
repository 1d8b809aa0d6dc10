----------------------------- MODULE MCCpoState -----------------------------
(***************************************************************************)
(* An instance of CpoState for TLC: three operations under two stop        *)
(* sources, a connect and a receive that share one (the parts of a         *)
(* connection) and a timer under the other (its timeout).  Between them    *)
(* they have every outcome of _Submit and of _Work the model tells apart.  *)
(* With stop requested from another thread: the first two.                 *)
(***************************************************************************)
EXTENDS CpoState, TLC

CONSTANTS connect, receive, timer, connection, timeout

MCOps == {connect, receive, timer}
MCSources == {connection, timeout}
MCToken == connect :> connection @@ receive :> connection @@ timer :> timeout
MCKind == connect :> "connect" @@ receive :> "receive" @@ timer :> "resume_at"
MCNonblocking == {receive}

ThreadOps == {connect, receive}
ThreadSources == {connection}
ThreadToken == connect :> connection @@ receive :> connection
ThreadKind == connect :> "connect" @@ receive :> "receive"
=============================================================================
