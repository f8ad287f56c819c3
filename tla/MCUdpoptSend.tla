---------------------------- MODULE MCUdpoptSend ----------------------------
(***************************************************************************)
(* Up to three sends of one or three datagrams; emit orders that reorder,  *)
(* repeat, omit, are empty or out of range; sequence numbers and           *)
(* Identifications that run out in the middle of the run.                  *)
(***************************************************************************)
EXTENDS UdpoptSend

Plain ==
    [count |-> 3, seq_start |-> 0, raw_options |-> FALSE, builds_options |-> TRUE,
     inputs_parse |-> TRUE, faults |-> "none", build |-> "fragments", pieces |-> 3,
     frag_emit |-> None, manifest |-> TRUE]

MCArgSets ==
    {[Plain EXCEPT !.frag_emit = e, !.manifest = m, !.build = b] :
        e \in {None, <<>>, <<2, 0, 0>>, <<3>>, <<0>>}, m \in BOOLEAN,
        b \in {"whole", "fragments", "error", "split_error"}}
    \cup {[Plain EXCEPT !.seq_start = s, !.build = "whole"] : s \in {4, 5}}
    \cup {[Plain EXCEPT !.faults = f] : f \in {"applied", "refused", "malformed"}}
    \cup {[Plain EXCEPT !.count = n] : n \in 0 .. 2}
    \cup {[Plain EXCEPT !.raw_options = TRUE, !.builds_options = b] : b \in BOOLEAN}
    \cup {[Plain EXCEPT !.raw_options = TRUE, !.builds_options = FALSE, !.build = "error"]}
    \cup {[Plain EXCEPT !.inputs_parse = FALSE]}

=============================================================================
