------------------------ MODULE MCAssignmentSolver ------------------------
(* A block and three tasks, all of one minute but for a divisible task of two, *)
(* in a horizon of five minutes.                                               *)
EXTENDS AssignmentSolver

MCLeaves == {"b", "t", "u", "v"}

MCDuration == [l \in MCLeaves |-> IF l = "u" THEN 2 ELSE 1]

MCChunk == [l \in MCLeaves |-> 1]

MCFamily == [l \in {"b"} |-> "transit"]

MCAllowed == [l \in {"t", "u", "v"} |->
                 IF l = "u" THEN {"default", "transit"} ELSE {"default"}]

At(s, e) == [start |-> s, end |-> e]

Start(wb, wt, wu, wv, past, es) ==
    [base |-> [l \in MCLeaves |->
                  CASE l = "b" -> wb [] l = "t" -> wt [] l = "u" -> wu [] l = "v" -> wv],
     past |-> [l \in MCLeaves |-> IF l \in past THEN {At(0, 1)} ELSE {}],
     edges |-> es, heuristicEnabled |-> TRUE]

WindowChoices ==
    {{At(0, 2)}, {At(1, 2)}, {At(1, 4)}, {At(3, 4)}, {At(0, 1), At(3, 5)}, {At(2, 5)}}

EdgeChoices ==
    {{}, {<<"t", "u">>}, {<<"u", "t">>, <<"u", "v">>}, {<<"b", "t">>, <<"v", "u">>},
     {<<"t", "u">>, <<"u", "v">>}, {<<"u", "v">>, <<"v", "u">>}}

\* A row in progress reaches one minute into the run; the block's duration was longer
\* when it was placed.
MCInputs ==
    {Start(wb, wt, wu, wv, past, es) :
        wb \in {{At(0, 1)}, {At(1, 3)}}, wt, wu \in WindowChoices,
        wv \in {{At(0, 2)}, {At(1, 4)}, {At(3, 4)}},
        past \in {{}, {"b"}, {"u"}}, es \in EdgeChoices}
    \cup {[Start({At(0, 2)}, w, w, w, {}, {}) EXCEPT !.heuristicEnabled = FALSE] :
             w \in WindowChoices}

\* A block of two minutes is in progress and has to be placed over what is left of it.
LongBlock == [MCDuration EXCEPT !["b"] = 2]

InProgressInputs ==
    {Start({At(0, 2)}, w, w, w, {"b"}, {}) : w \in {{At(2, 6)}, {At(0, 6)}}}
=============================================================================
