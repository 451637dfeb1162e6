----------------------------- MODULE MCPlayback -----------------------------
(* Two users, a channel, a vod, a catchup to be created, a series and a       *)
(* content request, with documents as the panel writes them: complete, of a   *)
(* proxy without the two flags, of a stream without an http_root, which is    *)
(* listed and cannot be played, of an unknown class and without a count, with *)
(* an output that has no uri.                                                 *)
EXTENDS Playback, TLC

CONSTANTS u1, u2, ch, vod, cat, ser, req

MCUsers == {u1, u2}
MCIds == {ch, vod, cat, ser, req}

MCKindOf ==
  (ch :> "channel") @@ (vod :> "vod") @@ (cat :> "catchup") @@ (ser :> "serial")
  @@ (req :> "request")

Without(fields, gone) == [f \in DOMAIN fields \ gone |-> fields[f]]

Out(id, url, root) == [id |-> id, url |-> url, root |-> root]

Doc(cls, holds, output) ==
  [cls |-> cls, holds |-> holds, views |-> 0, output |-> output]

Flags == {"have_audio", "have_video"}

MCPanelDocs ==
  (ch :> { Doc("proxy", Without(ChannelFields, Flags), <<Out(0, ch, None)>>),
           Doc("relay", ChannelFields, <<Out(0, None, ch), Out(0, ch, ch)>>),
           Doc("unknown", Without(ChannelFields, {"view_count"}), <<Out(0, ch, ch)>>) })
  @@ (vod :> { Doc("vod_proxy", Without(VodFields, Flags), <<Out(0, vod, None)>>),
               Doc("vod_relay", VodFields, <<Out(0, vod, vod)>>),
               Doc("vod_relay", VodFields, <<Out(0, vod, None)>>) })
  @@ (cat :> {})
  @@ (ser :> { Doc("serial", SerialFields, <<>>) })
  @@ (req :> {})

Symmetry == Permutations(MCUsers)

=============================================================================
