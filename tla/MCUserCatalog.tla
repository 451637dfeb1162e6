--------------------------- MODULE MCUserCatalog ---------------------------
(* One stream, which is a channel, a vod or a catchup, and a panel that       *)
(* writes an entry complete, without "favorite", or without the times, which  *)
(* $set appends.                                                              *)
EXTENDS UserCatalog

CONSTANTS stream

MCLayouts ==
  { ReadingOrder,
    <<"sid", "private", "locked", "recent", "interruption_time">>,
    <<"sid", "favorite", "private", "locked">> }

=============================================================================
