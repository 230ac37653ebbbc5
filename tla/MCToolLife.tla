----------------------------- MODULE MCToolLife -----------------------------
(* A small instance of ToolLife for TLC. *)
EXTENDS ToolLife

(* All lines of up to three tokens, the longer ones the kernel prints, and  *)
(* those with something after a line it prints.                             *)
MCLines ==
    BoundedSeq(Tokens, 3)
      \cup {l \in TupleOf(Tokens, 4) : KernelLine(SubSeq(l, 1, 3))}
      \cup {l \in TupleOf(Tokens, 5) : KernelLine(l)}
=============================================================================
