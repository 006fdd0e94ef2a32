----------------------------- MODULE MCSession -----------------------------
(***************************************************************************)
(* Torrent files and tracker replies on which TLC runs main.  Each key is  *)
(* one character long here, and the announce URL has three.                *)
(***************************************************************************)
EXTENDS Session, MCBencode

MCAnnounceKey    == <<65>>  \* 'A'
MCPieceLengthKey == <<80>>  \* 'P'
MCFailureKey     == <<70>>  \* 'F'
MCCompleteKey    == <<67>>  \* 'C'
MCIncompleteKey  == <<78>>  \* 'N'
MCIntervalKey    == <<86>>  \* 'V'
MCPeersKey       == <<90>>  \* 'Z'
MCIpKey          == <<81>>  \* 'Q'
MCPortKey        == <<82>>  \* 'R'

StringText(s) == EncodeString(s)
Entry(key, v) == EncodeString(key) \o v
One  == IntText(<<ch1>>)
Zero == IntText(<<ch0>>)
Twenty == IntText(<<ch0 + 2, ch0>>)

URL     == <<chA, chSlash, chA>>
NoSlash == <<chA>>

Torrent(announce, info) ==
    DictText(Entry(MCAnnounceKey, announce) \o Entry(InfoKey, info))
Info(length, piece) ==
    DictText(Entry(LengthKey, length) \o Entry(MCPieceLengthKey, piece))

\* Twenty bytes in pieces of one: two bytes of bitfield.
GoodTorrent == Torrent(StringText(URL), Info(Twenty, One))

MCTorrentFiles ==
    { GoodTorrent,
      Torrent(StringText(NoSlash), Info(Twenty, One)),
      Torrent(StringText(URL), Info(One, One)),      \* no byte of bitfield
      Torrent(StringText(URL), Info(One, Zero)),     \* pieces of length 0
      Torrent(StringText(URL), Info(One, StringText(URL))),
      Torrent(StringText(URL), One),
      Torrent(One, Info(One, One)),
      DictText(Entry(InfoKey, Info(One, One))),
      DictText(Entry(MCAnnounceKey, StringText(URL))),
      ListText(One),
      SubSeq(GoodTorrent, 1, Len(GoodTorrent) - 1),
      <<>> }

Counts ==
    Entry(MCCompleteKey, One) \o Entry(MCIncompleteKey, One)
        \o Entry(MCIntervalKey, One)
Peer(rest) == DictText(Entry(MCIpKey, StringText(NoSlash)) \o rest)
GoodPeer   == Peer(Entry(MCPortKey, One))
Reply(peersValue) == DictText(Counts \o Entry(MCPeersKey, peersValue))
PeerList(n) == ListText(FlattenSeq([i \in 1..n |-> GoodPeer]))

MCRefusals ==
    { DictText(Entry(MCFailureKey, StringText(URL))),
      DictText(Entry(MCFailureKey, One)) }

MCReplies ==
    MCRefusals \cup
    { Reply(PeerList(1)),
      Reply(PeerList(7)),                            \* more than main tries
      Reply(ListText(GoodPeer \o Peer(<<>>))),
      Reply(ListText(One)),
      Reply(StringText(URL)),                        \* packed peers
      Reply(One),
      DictText(Counts),
      \* keys "info" and "length" in the reply
      DictText(Entry(InfoKey, One) \o Entry(LengthKey, One) \o Counts
                   \o Entry(MCPeersKey, PeerList(2))),
      ListText(One),
      One,
      <<chA>>,
      <<>> }

MCInputs == MCTorrentFiles \cup MCReplies

\* No bitfield file, one with pieces in it, and an empty one.
MCBitfieldFiles == {NoFile, File(<<{0, 2}, {7}>>), File(<<>>)}
=============================================================================
