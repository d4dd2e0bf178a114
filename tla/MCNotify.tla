------------------------------ MODULE MCNotify ------------------------------
(* A small instance of Notify: one batch of two files, a page or the notifier. *)
EXTENDS Notify

CONSTANTS b1, j1, j2, tab, tg

MCJobsOf    == b1 :> <<j1, j2>>
MCLeft      == b1 :> {j2}
MCAudiences == {{tab}, {tg}}

=============================================================================
