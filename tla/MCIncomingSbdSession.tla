------------------------ MODULE MCIncomingSbdSession ------------------------
(* Sessions with streams that are cut off anywhere, for TLC. *)
EXTENDS IncomingSbdSession

CONSTANTS MaxEmpty, MaxLength, MaxSurplus

MCStreams ==
  {s \in [empty : 0 .. MaxEmpty, proto : BOOLEAN, length : 1 .. MaxLength,
          body : {"mo", "other", "unparsable"},
          sent : 0 .. HeaderSize * (MaxEmpty + 1) + MaxLength + MaxSurplus] :
     s.sent <= HeaderSize * (s.empty + 1) + s.length + MaxSurplus}
=============================================================================
