---------------------------- MODULE ChannelReload ----------------------------
(* The channels together with SIGHUP: do_restart in server.c calls         *)
(* channellist_reload, which frees every channel, reads channel.list again *)
(* (the same file here) and has every member join by the short name of the *)
(* channel it was in.  Bans, designees and operators are forgotten.        *)
EXTENDS Channel, SequencesExt

VARIABLE up     \* the process has not crashed

rvars == <<list, chan, at, gavel, online, up>>

RInit == Init /\ up = TRUE

\* The members in the order in which they join again: the channels are copied to a
\* list that turns them around, so the oldest comes first, its newest member first.
Everyone == FlattenSeq([i \in DOMAIN list |-> chan[list[Len(list) + 1 - i]].members])

\* Mutant: the bans are kept.
ReopenedWithBans ==
    [Opened(Permanent) EXCEPT !.gavel = gavel,
                   !.chan = [n \in DOMAIN @ |-> IF n \in DOMAIN chan
                                THEN [@[n] EXCEPT !.bans = chan[n].bans] ELSE @[n]]]

\* The connections keep their flags.
Reopened == [Opened(Permanent) EXCEPT !.gavel = gavel]

\* strdup of a NULL short name when anyone is in such a channel.
CopiesNull == \E n \in DOMAIN chan : chan[n].members # <<>> /\ chan[n].conf.short = NoName

Reload ==
    /\ up
    /\ IF CopiesNull
       THEN up' = FALSE /\ UNCHANGED <<list, chan, at, gavel>>
       ELSE /\ Become(FoldLeft(LAMBDA s, u : SetChannel(s, u, chan[at[u]].conf.short),
                               Reopened, Everyone))
            /\ UNCHANGED up
    /\ UNCHANGED online

RNext == (up /\ Next /\ UNCHANGED up) \/ Reload

RSpec == RInit /\ [][RNext]_rvars

----------------------------------------------------------------------------
(* Properties.                                                             *)

\* Reloading moves every member to a channel that answers to the short name of the
\* one it was in, and leaves nobody outside.
KeepsShortName ==
    \A u \in User : at[u] # NoName =>
        /\ at'[u] # NoName
        /\ chan[at[u]].conf.short \in {chan'[at'[u]].conf.short, at'[u]}

\* After a reload nobody is banned and nobody designated, and a channel has an
\* operator only when one of its members may operate it.
Forgets ==
    \A n \in DOMAIN chan' :
        /\ chan'[n].bans = {} /\ chan'[n].next = NoUser
        /\ chan'[n].opr # NoUser => Eligible(Chat', n, chan'[n].opr)

\* What a reload that does not crash owes its members.
Fresh == online' = online /\ up' => (Reload => KeepsShortName /\ Forgets)
ReloadForgets == [][Fresh]_rvars
=============================================================================
