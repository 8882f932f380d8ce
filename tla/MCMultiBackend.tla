--------------------------- MODULE MCMultiBackend ---------------------------
(* Three stores; the first is registered for one of the two prefixes it is
   given, the second for the other.  Both modes, both reactions to failure. *)
EXTENDS MultiBackend

MCPrefixOf == [f \in Files |-> f]

\* Files are their own prefixes.
MCConfigs ==
  [mode : {"stripe", "mirror"}, onfail : {"abort", "continue"},
   prefixes : {[s \in Stores |-> <<>>]}]
  \cup
  [mode : {"mirror"}, onfail : {"abort", "continue"},
   prefixes : {[s \in Stores |->
                  IF s = 1 THEN SetToSeq(Files)
                  ELSE IF s = 2 THEN <<CHOOSE f \in Files : TRUE>> ELSE <<>>]}]
=============================================================================
