---- MODULE MCWorkflowSystem ----
EXTENDS WorkflowSystem
Doc(t, l, s, p, v) == [tokens |-> t, lexical |-> l, semantic |-> s, prior |-> p, visible |-> v]
Mixed == [memory |-> <<Doc(5, 2, 0, 1, TRUE), Doc(1, 1, 2, 2, TRUE), Doc(2, 0, 1, 2, TRUE)>>,
          knowledge |-> <<Doc(2, 1, 1, 0, TRUE), Doc(4, 2, 0, 0, TRUE)>>]
Hidden == [memory |-> <<Doc(1, 2, 2, 2, FALSE), Doc(3, 0, 0, 1, TRUE)>>,
           knowledge |-> <<Doc(1, 0, 0, 0, TRUE), Doc(1, 0, 1, 0, TRUE), Doc(9, 1, 1, 0, TRUE)>>]
RequestsOf(documents, windows, tails) ==
  [base : {4}, window : windows, docs : {documents}, embeds : {TRUE}, tail : tails]
RequestSet == RequestsOf(Mixed, {7, 13, 22}, {<<9, 4, 0>>, <<16, 8, 5, 0>>})
              \cup RequestsOf(Hidden, {3, 8, 22}, {<<0>>, <<9, 4, 0>>})
====
