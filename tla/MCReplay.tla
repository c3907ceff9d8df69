------------------------------ MODULE MCReplay ------------------------------
(* Messages for Replay: every field has a value of its own, so that one read *)
(* in the place of another shows.                                           *)
EXTENDS Replay

MCMessages ==
  LET Told(t, f)  == [type |-> t, field |-> f]
      good(n, x)  == [bytes |-> n, text |-> x, utf8 |-> TRUE]
      bad         == [bytes |-> 3, text |-> "?", utf8 |-> FALSE]
      cost(flags) == [job |-> 2, exit |-> 1, real |-> 31, user |-> 32, sys |-> 33,
                      faults |-> 34, inSent |-> 35, in |-> 36, outSent |-> 37,
                      out |-> 38, flags |-> flags]
      done(flags, unknown, clients) ==
        [type |-> "MonJobDone", field |-> cost(flags), unknown |-> unknown,
         clients |-> clients]
  IN {Told("MonStats", [host |-> 1, stats |-> good(0, "")]),
      Told("MonStats", [host |-> 1, stats |-> bad]),
      Told("MonGetCs", [filename |-> good(5, "file"), lang |-> 4, job |-> 2, client |-> 3]),
      Told("MonLocalJobBegin", [host |-> 1, job |-> 2, start |-> 5, file |-> good(5, "file")]),
      done(0, TRUE, 6), done(1, FALSE, None),
      Told("JobLocalDone", [job |-> 2]),
      Told("End", <<>>),
      Told("Novel", [ty |-> 88])}

=============================================================================
