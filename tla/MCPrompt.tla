------------------------------- MODULE MCPrompt -------------------------------
(***************************************************************************)
(* The manual filament menu (powerscreen_cmd.cfg:172), a prompt with a     *)
(* text and a group, one without a text that leaves its group open, and a  *)
(* macro that ends a prompt and shows another without a prompt_begin.      *)
(***************************************************************************)
EXTENDS Prompt

L(op) == [op |-> op]
B(kind, footer) == [op |-> "button", kind |-> kind, footer |-> footer]

Menu == <<[op |-> "begin", manual |-> TRUE], B("fill", TRUE), B("resume", TRUE),
          B("close", TRUE), L("show")>>
Grouped == <<[op |-> "begin", manual |-> FALSE], L("text"), L("group_start"),
             B("other", FALSE), L("group_end"), B("close", FALSE), L("show")>>
LeftOpen == <<[op |-> "begin", manual |-> FALSE], B("other", FALSE), L("group_start"),
              B("close", FALSE), L("show")>>

Reused == <<L("end"), B("other", FALSE), L("show")>>

MCMacros == {Menu, Grouped, LeftOpen, Reused}
=============================================================================
