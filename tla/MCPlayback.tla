----------------------------- MODULE MCPlayback -----------------------------
(* Instances of Playback for TLC. *)
EXTENDS Playback

(* A table stream and a stage on the connection of the editor, a message stream
   on one of its own. *)
MCConn == [s \in Tasks |-> IF s \in Messages THEN "video" ELSE "editor"]

Request(p, t, f) == [playing |-> p, timestamp |-> t, frequency |-> f]

(* Pause, resume, scrub, pause and scrub in one, and the frequency zero. *)
MCRequests ==
    {Request({FALSE}, {}, {}), Request({TRUE}, {}, {}), Request({}, {0}, {}),
     Request({FALSE}, {1}, {}), Request({}, {}, {0})}
=============================================================================
