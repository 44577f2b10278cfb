------------------------------- MODULE MCSwag -------------------------------
(***************************************************************************)
(* Small instances for the SWAG solver.                                    *)
(***************************************************************************)
EXTENDS Swag

\* Two jobs that can be separated, and a chain behind the second of them
\* whose propagation is put off.
Chain ==
  [release |-> <<0, 0, 1, 2, 8>>, deadline |-> <<4, 5, 6, 7, 9>>,
   duration |-> <<1, 2, 1, 1, 1>>, usage |-> <<2, 2, 1, 1, 1>>,
   lag |-> {<<2, 3>>, <<3, 4>>}]

\* Three jobs that compete for windows that are too small for all of them.
Crowd ==
  [release |-> <<0, 0, 0, 1, 6>>, deadline |-> <<4, 4, 4, 5, 7>>,
   duration |-> <<2, 1, 2, 1, 1>>, usage |-> <<2, 1, 1, 1, 1>>,
   lag |-> {<<1, 4>>}]

\* The peak is a job that cannot move.  Jobs 2 and 3 only touch it, and while
\* it stays the peak, the starts behind job 3 are out of date.
LateStarts ==
  [release |-> <<0, 1, 1, 2, 3>>, deadline |-> <<1, 4, 4, 5, 6>>,
   duration |-> <<1, 1, 1, 1, 1>>, usage |-> <<3, 1, 1, 1, 1>>,
   lag |-> {<<3, 4>>, <<4, 5>>}]

\* The same for the finishs of the jobs before job 3.
LateFinishs ==
  [release |-> <<5, 4, 2, 1, 0>>, deadline |-> <<6, 7, 8, 4, 3>>,
   duration |-> <<1, 1, 3, 1, 1>>, usage |-> <<3, 1, 1, 1, 1>>,
   lag |-> {<<5, 4>>, <<4, 3>>}]

Mixed == {Chain, Crowd, LateStarts, LateFinishs}

\* Two jobs that overlap in every schedule.
Tight ==
  {[release |-> <<0, 0>>, deadline |-> <<1, 1>>, duration |-> <<1, 1>>,
    usage |-> <<1, 1>>, lag |-> {}]}

=============================================================================
