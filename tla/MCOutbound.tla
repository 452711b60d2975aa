----------------------------- MODULE MCOutbound -----------------------------
(* Command lines: a URL, any server that is discovered, and one by its name. *)
EXTENDS Outbound

CONSTANTS a, b

MCOptionSets ==
    { [discover |-> FALSE, named |-> {}],
      [discover |-> TRUE, named |-> {a, b}],
      [discover |-> TRUE, named |-> {b}] }
=============================================================================
