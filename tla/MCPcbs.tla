------------------------------- MODULE MCPcbs -------------------------------
(* TcpPcbs for TLC: which API calls the callbacks make. *)
EXTENDS TcpPcbs, TLC

\* Between two PCBs none is skipped, and a PCB may also be connected in a later
\* tick than it was allocated in, outside the callbacks of the timers.
PairCalls ==
  SafeCalls \cup (({"main"} \cup OfInput) \ {"refused", "refused_eof"}) \X {"connect_old"}

\* A smaller application, for three PCBs.
FewCalls ==
  ({"main"} \X {"new", "connect", "close"})
    \cup ({"poll", "timeout"} \X {"new", "connect", "close", "abort"})

\* It connects in a later tick than it allocates.
LateCalls == FewCalls \cup {<<"main", "connect_old">>}

\* It closes when the peer has closed, read or not.
CloseAtEof == FewCalls \cup {<<"closed", "close">>, <<"closed", "close_unread">>}

Symmetric == Permutations(PCBS)
=============================================================================
