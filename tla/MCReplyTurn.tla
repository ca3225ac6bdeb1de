----------------------------- MODULE MCReplyTurn -----------------------------
(***************************************************************************)
(* ReplyTurn for TLC: a call of end_conversation without arguments, the    *)
(* beginning of one with arguments, and what a delta that only continues   *)
(* arguments carries.                                                      *)
(***************************************************************************)
EXTENDS ReplyTurn

ToolParts ==
  {[name |-> "end_conversation", arg |-> "null"],
   [name |-> "end_conversation", arg |-> "head"],
   [name |-> "", arg |-> "tail"]}
=============================================================================
