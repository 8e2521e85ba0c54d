---------------------------- MODULE MCVerticalEditor ----------------------------
(* Two scenes whose first items have the same id and show different sources. *)
EXTENDS VerticalEditor

Item(id, source) == [id |-> id, source |-> source, transform |-> "t0", locked |-> FALSE, visible |-> TRUE]

MCStart == [s \in {"A", "B"} |-> IF s = "A" THEN <<Item(1, "cam"), Item(2, "game")>>
                                            ELSE <<Item(1, "game")>>]
=================================================================================
