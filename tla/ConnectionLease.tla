-------------------------- MODULE ConnectionLease --------------------------
(***************************************************************************)
(* What the operations on files rely on when they send commands over a     *)
(* control connection: it is theirs alone.  A connection is closed, free,  *)
(* or leased to one file, and while the file's operation uses what it has  *)
(* nobody takes it away, whoever cleans up.                                *)
(***************************************************************************)
CONSTANTS Files,   \* the files, each used by one thread at a time
          Conns,   \* control connections
          Free, Closed

VARIABLES holder,  \* who has each connection, or Free, or Closed
          using    \* the files whose operation relies on its connection

vars == <<holder, using>>

Init == holder = [c \in Conns |-> Closed] /\ using = {}

\* The thread of file f takes free or new connections for f, and gives back or
\* closes what no operation uses, be it of f or of another file.
Move(f) ==
    /\ using' \in {using, using \cup {f}, using \ {f}}
    /\ holder' \in [Conns -> {Free, Closed} \cup Files]
    /\ \A c \in Conns : holder'[c] # holder[c] =>
        /\ holder[c] \notin using
        /\ holder'[c] \in {Free, Closed, f}
        /\ holder[c] = Closed => holder'[c] = f

\* So may a thread that works for no file.
CleanUp ==
    /\ holder' \in [Conns -> {Free, Closed} \cup Files]
    /\ \A c \in Conns : holder'[c] # holder[c] =>
        holder[c] \notin using \cup {Closed} /\ holder'[c] \in {Free, Closed}
    /\ UNCHANGED using

Next == CleanUp \/ \E f \in Files : Move(f)

Spec == Init /\ [][Next]_vars
=============================================================================
