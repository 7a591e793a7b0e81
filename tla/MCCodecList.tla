---------------------------- MODULE MCCodecList -----------------------------
(***************************************************************************)
(* Small offers, texts, entries and tables for the codec lists: two-case   *)
(* names, dotted and delimited format parameters, zero and absent          *)
(* qualifiers, broken and declined sections, lists past the cap.           *)
(***************************************************************************)
EXTENDS CodecList

MCNumbers ==
    {0, 1, 2, 8, 13, 18, 20, 30, 40, 96, 97, 101, 300, 8000, 13330, 16000, 32000, 48000, 64000,
     90000}

\* Sessions.
Attr(name, text) == [attribute |-> name, value |-> Some(text)]
Flag(name) == [attribute |-> name, value |-> Nothing]
Rtpmap(words) == Attr("rtpmap", words)
Fmtp(words) == Attr("fmtp", words)

Media(media, port, proto, fmt, attributes) ==
    [media |-> media, port |-> port, proto |-> proto, fmt |-> fmt, attributes |-> attributes]

Opus == Rtpmap(<<"96", " ", "OPUS", "/", "48000", "/", "2">>)
OpusFmtp == Fmtp(<<"96", " ", "ptime", "=", "40", ";", "a", "@", "b">>)

Audio == Media("audio", 8, "RTP/AVP", <<"0", "96", "101", "13", "97">>,
               <<Opus, OpusFmtp, Rtpmap(<<"101", " ", "telephone-event", "/", "8000">>),
                 Attr("ptime", <<"20", ".", "0">>)>>)
Odd == Media("audio", 8, "rtp/avp", <<"18", "96", "97">>,
             <<Rtpmap(<<"96", " ", "x", ".", "y", "/", "8000", "/">>),
               Rtpmap(<<"97", "\t", "ilbc", "/", "8000">>),
               Fmtp(<<"97", " ", "mode", "=", "junk">>),
               Attr("ptime", <<"0">>), Flag("SendOnly"), Flag("recvonly")>>)
Wide == Media("audio", 8, "RTP/SAVP", <<"97", "96">>,
              <<Rtpmap(<<"97", " ", "isac", "/", "16000">>),
                Rtpmap(<<"96", " ", "G7221", "/", "32000">>),
                Fmtp(<<"96", " ", "a", "=", "b", ";", " ", "bitrate", "=", "32000">>)>>)
Video == Media("video", 8, "UDP/TLS/RTP/SAVPF", <<"96", "97">>,
               <<Rtpmap(<<"96", " ", "vp8", "/", "90000">>),
                 Rtpmap(<<"96", " ", "h264", "/", "90000">>),
                 Fmtp(<<"96", " ", "a", ".", "b">>)>>)
Fax == Media("IMAGE", 8, "udptl", <<"t38">>, <<>>)
Declined == [Audio EXCEPT !.port = 0]
NotRtp == Media("application", 8, "DTLS/SCTP", <<"webrtc">>, <<>>)
NoRate == [Audio EXCEPT !.attributes = <<Opus, Rtpmap(<<"97", " ", "b", "/", "c">>)>>]
PastU8 == [Audio EXCEPT !.fmt = <<"0", "300">>]
NoPayload == [Video EXCEPT !.attributes = <<Fmtp(<<"a", "=", "b">>)>>]

Session(attributes, medias) == [attributes |-> attributes, medias |-> medias]

MCOffers ==
    { Session(<<Attr("ptime", <<"30">>), Flag("sendonly")>>, medias) :
        medias \in {<<Odd>>, <<Wide, NotRtp>>, <<Fax, Audio>>, <<Audio, Declined>>,
                    <<Odd, Audio>>, <<Video, Fax, Wide>>} }
      \cup
    { Session(<<Attr("maxptime", <<"b">>)>>, <<broken, kept>>) :
        broken \in {NoRate, PastU8, NoPayload}, kept \in {Audio, Video} }

MCOptions == {AudioOptions, VideoOptions, [VideoOptions EXCEPT !.ptime = TRUE]}

\* Lists.
Bare(name) == NewEntry(<<name>>)[1]
Stereo == [Bare("L16") EXCEPT !.rate = Some(8000), !.channels = Some(0)]
Modular == [Bare("AMR") EXCEPT !.modname = Some(<<"mod_amr">>), !.fmtp = Some(<<"a", ".", "b">>)]

MCTexts ==
    { <<"mod_amr", ".", "AMR", "~", "a", ".", "b", "@", "20", "i">>,
      <<" ", "PCMU", "@", "20", "i", "@", "8000", "h", ",", "pcmu", " ">>,
      <<"'", "L16", "~", "a", ",", "b", "'", "@", "0", "c", ",", ",", "L16", "@", "1", "c">>,
      <<"opus", "@", "48000", "h", "@", Overflow, "b", "@">>,
      <<"G722", "@", "16000", "k", ",", "VP8", "@", "30", "i", "@", "1", "c">>,
      <<"PCMU", ",", ",", ",", "PCMA">> }

MCPolicies == { <<Bare("PCMU"), [Bare("PCMU") EXCEPT !.ptime = Some(20)]>> }
MCNewEntries == {Stereo, Modular}
MCNewNames == {<<"G722">>, <<"a", ",", "b">>}
MCNewModules == {<<"mod_l16">>, <<>>}
MCNewFmtps == {<<"a", ",", " ", Quote, BS, "s", " ", " ">>, <<"a", ".", "~">>, <<" ">>}
MCQualifiers ==
    {<<"channels", 0>>, <<"channels", 1>>, <<"rate", 0>>, <<"rate", 8000>>, <<"ptime", 20>>,
     <<"bitrate", 64000>>}

Loaded(name) ==
    [name |-> <<name>>, modname |-> Nothing, media |-> Some("audio"), rate |-> Nothing,
     ptime |-> Nothing, bitrate |-> Nothing, channels |-> Nothing]

MCTables ==
    { {[Loaded("PCMU") EXCEPT !.rate = Some(8000), !.ptime = Some(20), !.channels = Some(1)],
       [Loaded("L16") EXCEPT !.modname = Some(<<"mod_l16">>), !.rate = Some(8000),
                             !.channels = Some(2)],
       [Loaded("VP8") EXCEPT !.media = Some("video"), !.ptime = Some(20)]},
      {Loaded("AMR"), Loaded("opus"), [Loaded("G722") EXCEPT !.rate = Some(8000)]} }
=============================================================================
