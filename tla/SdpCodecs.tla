----------------------------- MODULE SdpCodecs ------------------------------
(***************************************************************************)
(* The codecs an SDP offer carries, freeswitch-types/src/sdp/codecs/: the  *)
(* walk over its m= sections, the resolution of each payload type, and the *)
(* codec strings built from the result.                                    *)
(*                                                                         *)
(* A session is what the sdp-types crate parses: [attributes, medias], a   *)
(* media [media, port, proto, fmt, attributes] and an attribute            *)
(* [attribute, value], its value an optional text.  A payload type is a    *)
(* number, a format list the sequence of its words.  A warning is what it  *)
(* is about; warnings stand in the order they are recorded.                *)
(***************************************************************************)
EXTENDS CodecString

MaxU8 == 255
NoBound == 2147483647

\* The warning to record, where its condition holds.
Warned(condition, warning) == IF condition THEN <<warning>> ELSE <<>>

(***************************************************************************)
(* The cursor over the value of an attribute (attrs.rs).                   *)
(***************************************************************************)
Blank == {Space, "\t"}

SkipWs(s) ==
    With(FirstAt(LAMBDA i : s[i] \notin Blank, 1, Len(s)), LAMBDA first :
         IF first = None THEN <<>> ELSE SubSeq(s, first, Len(s)))

Number(s, max) ==
    With(AtoiPrefix(SkipWs(s)), LAMBDA read :
         [value |-> IF read.value # Nothing /\ read.value[1] > max THEN Nothing ELSE read.value,
          rest |-> IF read.value = Nothing THEN read.rest ELSE SkipWs(read.rest)])

Field(s, stop) ==
    With(SkipWs(s), LAMBDA t :
    With(FirstAt(LAMBDA i : t[i] \in Blank \cup {stop}, 1, Len(t)), LAMBDA end :
         IF end = None THEN [field |-> t, rest |-> <<>>]
         ELSE [field |-> SubSeq(t, 1, end - 1), rest |-> SubSeq(t, end, Len(t))]))

\* The channels after the clock rate: none, or what follows a slash.
RtpmapChannels(s) ==
    IF ~StartsWith(s, <<"/">>) THEN [ok |-> TRUE, value |-> Nothing, rest |-> s]
    ELSE IF SkipWs(Tail(s)) = <<>> THEN [ok |-> TRUE, value |-> Nothing, rest |-> <<>>]
    ELSE With(Number(Tail(s), NoBound), LAMBDA n :
              [ok |-> n.value # Nothing, value |-> n.value, rest |-> n.rest])

ParseRtpmap(value) ==
    With(Number(value, MaxU8), LAMBDA pt :
    With(Field(pt.rest, "/"), LAMBDA name :
         IF pt.value = Nothing \/ name.field = <<>> \/ ~StartsWith(name.rest, <<"/">>)
           THEN Nothing
         ELSE With(Number(Tail(name.rest), NoBound), LAMBDA rate :
              With(RtpmapChannels(rate.rest), LAMBDA channels :
                   IF rate.value = Nothing \/ ~channels.ok \/ channels.rest # <<>> THEN Nothing
                   ELSE Some([pt |-> pt.value[1], name |-> name.field, rate |-> rate.value[1],
                              channels |-> channels.value])))))

ParseFmtpPt(value) ==
    With(Number(value, MaxU8), LAMBDA pt :
         IF pt.value = Nothing THEN Nothing
         ELSE Some([pt |-> pt.value[1], params |-> pt.rest]))

(***************************************************************************)
(* The attributes of a session or of one section.                          *)
(***************************************************************************)
Named(attributes, name) ==
    SelectSeq(attributes, LAMBDA a : a.attribute = name)

\* The attributes of a name that carry a value.
Values(attributes, name) ==
    SelectSeq(Named(attributes, name), LAMBDA a : a.value # Nothing)

AttributeTables(media) ==
    With(Listed(LAMBDA k : ParseRtpmap(Values(media.attributes, "rtpmap")[k].value[1]),
                Len(Values(media.attributes, "rtpmap"))), LAMBDA rtpmap :
    With(Listed(LAMBDA k : ParseFmtpPt(Values(media.attributes, "fmtp")[k].value[1]),
                Len(Values(media.attributes, "fmtp"))), LAMBDA fmtp :
         IF \/ \E k \in DOMAIN rtpmap : rtpmap[k] = Nothing
            \/ \E k \in DOMAIN fmtp : fmtp[k] = Nothing
           THEN Nothing ELSE Some([rtpmap |-> rtpmap, fmtp |-> fmtp])))

\* HashMap::get after a later insert replaced an earlier one.
LookUp(table, pt) ==
    With(SelectSeq(table, LAMBDA row : row[1].pt = pt), LAMBDA rows :
         IF rows = <<>> THEN Nothing ELSE rows[Len(rows)])

\* [value, warnings] of a packetization time: digits, perhaps with a fraction.
ParsePtimeValue(raw, attr) ==
    With(AtoiPrefix(SplitOnce(raw, ".")[1]), LAMBDA read :
         IF read.value \notin {Nothing, Some(0)} /\ read.rest = <<>>
           THEN [value |-> read.value, warnings |-> <<>>]
           ELSE [value |-> Nothing, warnings |-> <<attr>>])

PtimeFromAttrs(attributes, name) ==
    With(Named(attributes, name), LAMBDA named :
         IF named = <<>> \/ named[1].value = Nothing
           THEN [value |-> Nothing, warnings |-> <<>>]
           ELSE ParsePtimeValue(named[1].value[1], name))

DirectionAttributes == {"sendrecv", "sendonly", "recvonly", "inactive"}

\* The first attribute that is a direction; one in another case is warned about.
DirectionFromAttrs(attributes) ==
    Scan(LAMBDA found, k :
           LET a == attributes[k]
           IN  IF \/ found.value # Nothing \/ a.value # Nothing
                  \/ Lower(a.attribute) \notin DirectionAttributes THEN found
               ELSE IF a.attribute \in DirectionAttributes
                 THEN [found EXCEPT !.value = Some(a.attribute)]
               ELSE [found EXCEPT !.warnings = Append(@, "direction")],
         [value |-> Nothing, warnings |-> <<>>], Len(attributes))

Trim(s) ==
    With({i \in DOMAIN s : s[i] \notin StrippedWhitespace}, LAMBDA kept :
         IF kept = {} THEN <<>>
         ELSE SubSeq(s, CHOOSE i \in kept : \A j \in kept : i <= j,
                        CHOOSE i \in kept : \A j \in kept : j <= i))

FmtpParam(fmtp, key) ==
    With(Split(fmtp, ";"), LAMBDA parts :
         Scan(LAMBDA found, k :
                IF found # Nothing THEN found
                ELSE With(SplitOnce(Trim(parts[k]), "="), LAMBDA pair :
                          IF Len(pair) = 2 /\ LowerText(Trim(pair[1])) = <<key>>
                            THEN Some(Trim(pair[2])) ELSE Nothing),
              Nothing, Len(parts)))

(***************************************************************************)
(* One payload type (media_section.rs, static_payload.rs).                 *)
(***************************************************************************)
\* RFC 3551: <<payload type, name, clock rate, channels>>.
StaticPayloads ==
    { <<0, "PCMU", 8000, <<1>>>>, <<3, "GSM", 8000, <<1>>>>, <<4, "G723", 8000, <<1>>>>,
      <<5, "DVI4", 8000, <<1>>>>, <<6, "DVI4", 16000, <<1>>>>, <<7, "LPC", 8000, <<1>>>>,
      <<8, "PCMA", 8000, <<1>>>>, <<9, "G722", 8000, <<1>>>>, <<10, "L16", 44100, <<2>>>>,
      <<11, "L16", 44100, <<1>>>>, <<12, "QCELP", 8000, <<1>>>>, <<13, "CN", 8000, <<1>>>>,
      <<14, "MPA", 90000, <<>>>>, <<15, "G728", 8000, <<1>>>>, <<16, "DVI4", 11025, <<1>>>>,
      <<17, "DVI4", 22050, <<1>>>>, <<18, "G729", 8000, <<1>>>>, <<25, "CelB", 90000, <<>>>>,
      <<26, "JPEG", 90000, <<>>>>, <<28, "nv", 90000, <<>>>>, <<31, "H261", 90000, <<>>>>,
      <<32, "MPV", 90000, <<>>>>, <<33, "MP2T", 90000, <<>>>>, <<34, "H263", 90000, <<>>>> }

KnownBitrate(pt) ==
    CASE pt \in {0, 8, 9} -> Some(64000) [] pt = 3 -> Some(13200) [] pt = 4 -> Some(6300)
      [] pt = 7 -> Some(2400) [] pt = 18 -> Some(8000) [] OTHER -> Nothing

\* The name, clock rate and channels of a payload type.
ResolvePayload(tables, pt) ==
    With(LookUp(tables.rtpmap, pt), LAMBDA mapped :
    With({row \in StaticPayloads : row[1] = pt}, LAMBDA rows :
         IF mapped # Nothing
           THEN Some([name |-> mapped[1].name, rate |-> mapped[1].rate,
                      channels |-> mapped[1].channels, hasRtpmap |-> TRUE])
         ELSE IF rows = {} THEN Nothing
         ELSE With(CHOOSE row \in rows : TRUE, LAMBDA row :
                   Some([name |-> <<row[2]>>, rate |-> row[3], channels |-> row[4],
                         hasRtpmap |-> FALSE]))))

NonCodecKind(name) == LowerText(name) \in {<<"telephone-event">>, <<"cn">>}

\* What a codec forces when the offer has no a=fmtp for it: <<ptime, bitrate>>.
NoFmtpQuirk(name) ==
    CASE LowerText(name) = <<"ilbc">> -> <<30, 13330>>
      [] LowerText(name) = <<"isac">> -> <<30, 32000>>
      [] OTHER -> Nothing

\* What the format parameters of a codec say: each later step beats an earlier one.
FmtpQuirk(name, fmtp, before) ==
    CASE LowerText(name) = <<"opus">> ->
           With(FmtpParam(fmtp, "ptime"), LAMBDA p :
                IF p = Nothing THEN before
                ELSE With(ParsePtimeValue(p[1], "fmtp ptime"), LAMBDA read :
                          [before EXCEPT !.ptime = IF read.value = Nothing THEN @ ELSE read.value,
                                         !.warnings = @ \o read.warnings]))
      [] LowerText(name) = <<"ilbc">> ->
           With(FmtpParam(fmtp, "mode"), LAMBDA m :
                IF m = Nothing THEN [before EXCEPT !.ptime = Some(30)]
                ELSE With(ParsePtimeValue(m[1], "fmtp mode"), LAMBDA read :
                          [before EXCEPT !.ptime = Some(UnwrapOr(read.value, 30)),
                                         !.warnings = @ \o read.warnings]))
      [] LowerText(name) = <<"g7221">> ->
           With(FmtpParam(fmtp, "bitrate"), LAMBDA b :
                IF b = Nothing THEN before
                ELSE With(AtoiPrefix(b[1]), LAMBDA read :
                          IF read.value # Nothing /\ read.rest = <<>>
                            THEN [before EXCEPT !.bitrate = read.value]
                            ELSE [before EXCEPT !.warnings = Append(@, "fmtp bitrate")]))
      [] OTHER -> before

ResolvePtimeBitrate(name, pt, fmtp, ptime) ==
    With([ptime |-> Some(UnwrapOr(ptime, DefaultPtime(name))), bitrate |-> KnownBitrate(pt),
          warnings |-> <<>>], LAMBDA before :
    With(NoFmtpQuirk(name), LAMBDA forced :
         IF fmtp # Nothing THEN FmtpQuirk(name, fmtp[1], before)
         ELSE IF forced = Nothing THEN before
         ELSE [before EXCEPT !.ptime = Some(forced[1]), !.bitrate = Some(forced[2])]))

(***************************************************************************)
(* One section: entries, unmapped and non-codec payloads, warnings.  An    *)
(* entry is [kind |-> "T38"] or a codec.                                   *)
(***************************************************************************)
IsImage(media) == Lower(media) = "image"

RtpProtos ==
    {"RTP", "RTP/AVP", "RTP/AVPF", "RTP/SAVP", "RTP/SAVPF", "UDP/RTP/AVPF",
     "UDP/TLS/RTP/SAVP", "UDP/TLS/RTP/SAVPF"}

ProtoHasRtp(proto) == Lower(proto) \in {Lower(p) : p \in RtpProtos}

EmptySection == [entries |-> <<>>, unmapped |-> <<>>, nonCodec |-> <<>>, warnings |-> <<>>]

\* The codec a payload resolved to becomes.
CodecOf(media, pt, payload, fmtp, section, defaults) ==
    With(ResolvePtimeBitrate(CanonicalIananame(payload.name), pt, fmtp, defaults.ptime),
         LAMBDA resolved :
         [section EXCEPT
            !.entries = Append(@, [kind |-> "Rtp", media |-> media, payloadType |-> pt,
                                   name |-> CanonicalIananame(payload.name),
                                   rate |-> payload.rate,
                                   channels |-> IF media = "audio"
                                                  THEN Some(UnwrapOr(payload.channels, 1))
                                                  ELSE payload.channels,
                                   fmtp |-> fmtp, ptime |-> resolved.ptime,
                                   maxptime |-> defaults.maxptime,
                                   bitrate |-> resolved.bitrate,
                                   direction |-> defaults.direction,
                                   hasRtpmap |-> payload.hasRtpmap]),
            !.warnings = @ \o resolved.warnings])

AddPayload(section, media, pt, tables, defaults) ==
    With(ResolvePayload(tables, pt), LAMBDA payload :
    With(LookUp(tables.fmtp, pt), LAMBDA row :
    With(IF row = Nothing THEN Nothing ELSE Some(row[1].params), LAMBDA fmtp :
         IF payload = Nothing THEN [section EXCEPT !.unmapped = Append(@, pt)]
         ELSE IF NonCodecKind(payload[1].name)
           THEN [section EXCEPT !.nonCodec =
                   Append(@, [payloadType |-> pt, name |-> LowerText(payload[1].name),
                              rate |-> payload[1].rate, fmtp |-> fmtp,
                              hasRtpmap |-> payload[1].hasRtpmap])]
         ELSE CodecOf(media, pt, payload[1], fmtp, section, defaults))))

\* A word of the format list that is a u8.
PayloadType(word) == Number(<<word>>, MaxU8).value

ParseMediaSection(media, defaults) ==
    With(PtimeFromAttrs(media.attributes, "ptime"), LAMBDA ptime :
    With(PtimeFromAttrs(media.attributes, "maxptime"), LAMBDA maxptime :
    With(AttributeTables(media), LAMBDA tables :
         IF tables = Nothing \/ \E k \in DOMAIN media.fmt : PayloadType(media.fmt[k]) = Nothing
           THEN Nothing
         ELSE Some(Scan(LAMBDA section, k :
                          AddPayload(section, media.media, PayloadType(media.fmt[k])[1], tables[1],
                                     [defaults EXCEPT
                                        !.ptime = IF ptime.value = Nothing THEN @ ELSE ptime.value,
                                        !.maxptime = IF maxptime.value = Nothing THEN @
                                                     ELSE maxptime.value]),
                        [EmptySection EXCEPT !.warnings = ptime.warnings \o maxptime.warnings],
                        Len(media.fmt))))))

(***************************************************************************)
(* The session (codecs/mod.rs).                                            *)
(***************************************************************************)
\* What a section is read as; one that is broken stays empty, with a warning.
ReadSection(media, defaults) ==
    IF IsImage(media.media) THEN [EmptySection EXCEPT !.entries = <<[kind |-> "T38"]>>]
    ELSE IF ~ProtoHasRtp(media.proto) THEN EmptySection
    ELSE UnwrapOr(ParseMediaSection(media, defaults),
                  [EmptySection EXCEPT !.warnings = <<"malformed section">>])

AddSection(result, media, session) ==
    With(DirectionFromAttrs(media.attributes), LAMBDA direction :
    With(UnwrapOr(direction.value, session.direction), LAMBDA resolved :
    With(ReadSection(media, [session EXCEPT !.direction = resolved]), LAMBDA read :
         [sections |-> Append(result.sections,
                              [media |-> media.media, port |-> media.port, direction |-> resolved,
                               entries |-> read.entries, unmapped |-> read.unmapped,
                               nonCodec |-> read.nonCodec]),
          warnings |-> result.warnings \o direction.warnings \o read.warnings])))

\* Faulty variant: the first broken section ends the walk.
FromSessionToFirstFault(session) ==
    Scan(LAMBDA result, k :
           IF Contains(result.warnings, "malformed section") THEN result
           ELSE AddSection(result, session.medias[k],
                           [ptime |-> PtimeFromAttrs(session.attributes, "ptime").value,
                            maxptime |-> PtimeFromAttrs(session.attributes, "maxptime").value,
                            direction |-> "sendrecv"]),
         [sections |-> <<>>, warnings |-> <<>>], Len(session.medias))

FromSession(session) ==
    With(PtimeFromAttrs(session.attributes, "ptime"), LAMBDA ptime :
    With(PtimeFromAttrs(session.attributes, "maxptime"), LAMBDA maxptime :
    With(DirectionFromAttrs(session.attributes), LAMBDA direction :
         Scan(LAMBDA result, k :
                AddSection(result, session.medias[k],
                           [ptime |-> ptime.value, maxptime |-> maxptime.value,
                            direction |-> UnwrapOr(direction.value, "sendrecv")]),
              [sections |-> <<>>,
               warnings |-> ptime.warnings \o maxptime.warnings \o direction.warnings],
              Len(session.medias)))))

IsNegotiable(section) ==
    section.port # 0 /\ (section.media \in {"audio", "video"} \/ IsImage(section.media))

Entries(codecs) ==
    With(SelectSeq(codecs.sections, IsNegotiable), LAMBDA sections :
         Flatten(Listed(LAMBDA k : sections[k].entries, Len(sections))))

(***************************************************************************)
(* Codec strings from an offer.  A build is [list, warnings].              *)
(***************************************************************************)
AudioOptions ==
    [rate |-> TRUE, ptime |-> TRUE, bitrate |-> TRUE, channels |-> TRUE, fmtp |-> FALSE]

VideoOptions ==
    [rate |-> FALSE, ptime |-> FALSE, bitrate |-> FALSE, channels |-> FALSE, fmtp |-> TRUE]

ApplyQualifiers(entry, codec, options) ==
    [entry EXCEPT !.rate = IF options.rate THEN Some(codec.rate) ELSE @,
                  !.ptime = IF options.ptime /\ codec.ptime # Nothing THEN codec.ptime ELSE @,
                  !.bitrate = IF options.bitrate /\ codec.bitrate # Nothing
                                THEN codec.bitrate ELSE @,
                  !.channels = IF options.channels /\ codec.channels # Nothing
                                 THEN codec.channels ELSE @]

EmbedFmtp(entry, codec, options) ==
    IF options.fmtp /\ codec.fmtp # Nothing THEN SetFmtp(entry, codec.fmtp[1]) ELSE Some(entry)

\* A codec with a name that has no place in the grammar is left out, format
\* parameters that have none are; strictly, either fails the call.
AddCodec(build, codec, options, lenient) ==
    With(NewEntry(codec.name), LAMBDA bare :
    With(Then(bare, LAMBDA entry : EmbedFmtp(entry, codec, options)), LAMBDA embedded :
         IF build.list = Nothing \/ (embedded = Nothing /\ ~lenient)
           THEN [build EXCEPT !.list = Nothing]
         ELSE IF bare = Nothing THEN [build EXCEPT !.warnings = Append(@, "name")]
         ELSE [list |-> Push(build.list[1],
                             ApplyQualifiers(UnwrapOr(embedded, bare[1]), codec, options)),
               warnings |-> build.warnings \o Warned(embedded = Nothing, "fmtp")]))

AddT38(build) ==
    [build EXCEPT !.list = Then(@, LAMBDA list : Push(list, NewEntry(<<"t38">>)[1]))]

EmptyBuild == [list |-> Some(<<>>), warnings |-> <<>>]

AudioCodecString(codecs, options, lenient) ==
    With(Entries(codecs), LAMBDA entries :
         Scan(LAMBDA build, k :
                IF entries[k].kind = "T38" THEN AddT38(build)
                ELSE IF entries[k].media = "audio"
                  THEN AddCodec(build, entries[k], options, lenient)
                ELSE build,
              EmptyBuild, Len(entries)))

VideoCodecString(codecs, options, lenient) ==
    With(Entries(codecs), LAMBDA entries :
         Scan(LAMBDA build, k :
                IF entries[k].kind = "Rtp" /\ entries[k].media = "video"
                  THEN AddCodec(build, entries[k], options, lenient) ELSE build,
              EmptyBuild, Len(entries)))
=============================================================================
