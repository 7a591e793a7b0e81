---------------------------- MODULE MCDialString ----------------------------
(***************************************************************************)
(* Small dial strings for TLC: texts of one or two characters that some    *)
(* pass reads, in every field, scope and position, for every target.       *)
(***************************************************************************)
EXTENDS DialStringRelay

MCSpecials == {BS, Quote, ",", Space, "s", "$", "{", "=", "^", "|", "[", "]", ":", "/", "~"}

Word == <<"x">>

Texts(chars, n) == {Word} \cup UNION {[1..k -> chars] : k \in 1..n}

MCScopes == {"Default", "Channel", "Enterprise"}
MCVarKeys == {<<"A">>, <<"a">>, <<"^", "^">>, <<BS>>}
MCVarValues ==
    Texts(MCSpecials, 1) \cup Texts({BS, Quote, ",", Space, "$", "{", "^"}, 2)
      \cup {<<>>, <<"x", Space, "x">>}
MCSeparators == {"|", "~", "<"}

(***************************************************************************)
(* Endpoints: at most one field is not a plain word.                       *)
(***************************************************************************)
LegTexts ==
    Texts({BS, Quote, ",", Space, "$", "{", "^", "|", "[", ":", "/"}, 1)
      \cup Texts({BS, Quote, ",", "$", "{", "^"}, 2)

OneOdd == {<<Word, t>> : t \in LegTexts} \cup {<<t, Word>> : t \in LegTexts}

Sofia(p, d) ==
    [kind |-> "sofia", profile |-> p, destination |-> d, variables |-> NoVariables]
Gateway(p, g, d) ==
    [kind |-> "sofia gateway", profile |-> p, gateway |-> g, destination |-> d,
     variables |-> NoVariables]
Loopback(e, c, d) ==
    [kind |-> "loopback", extension |-> e, context |-> c, dialplan |-> d,
     variables |-> NoVariables]
User(n, d) == [kind |-> "user", name |-> n, domain |-> d, variables |-> NoVariables]
Error == [kind |-> "error", cause |-> <<"USER_BUSY">>, variables |-> NoVariables]
AudioDevice(d) == [kind |-> "alsa", destination |-> d, variables |-> NoVariables]
Contact(p, u, d) ==
    [kind |-> "sofia_contact", profile |-> p, user |-> u, domain |-> d,
     variables |-> NoVariables]
Group(g, d, o) ==
    [kind |-> "group_call", group |-> g, domain |-> d, order |-> o, variables |-> NoVariables]

MCFirstLegs ==
    {Sofia(t[1], t[2]) : t \in OneOdd}
      \cup {Gateway(Absent, t[1], t[2]) : t \in OneOdd}
      \cup {Gateway(t[1], t[2], Word) : t \in OneOdd}
      \cup {Loopback(t[1], t[2], Absent) : t \in OneOdd}
      \cup {Loopback(t, Absent, Word) : t \in LegTexts}
      \cup {Loopback(<<"app", "=", "park", ":">> \o t, Absent, Absent) : t \in LegTexts}
      \cup {User(t[1], t[2]) : t \in OneOdd}
      \cup {AudioDevice(t) : t \in LegTexts \cup {Absent}}
      \cup {Contact(Absent, t[1], t[2]) : t \in OneOdd}
      \cup {Group(t[1], t[2], <<"A">>) : t \in OneOdd}
      \cup {Error, User(Word, Absent)}

MCMoreLegs == {Sofia(Word, t) : t \in Texts({"[", "]", ",", BS}, 1)} \cup {Error}

MCTargets ==
    {[carrier |-> "EslApi", argument |-> Space], [carrier |-> "EslApi", argument |-> "~"],
     [carrier |-> "Dialplan", argument |-> Space]}

(***************************************************************************)
(* Originates: a target or one slot is not plain.                          *)
(***************************************************************************)
LineTexts ==
    Texts({BS, Quote, ",", Space, "^", ":", "&", ")", "~", "\t"}, 1)
      \cup Texts({BS, Quote, ",", Space, "^", "&"}, 2) \cup {<<>>}

Application(name, args) == [kind |-> "application", name |-> name, args |-> args]
Inline(apps) == [kind |-> "inline", apps |-> apps]
Park == [name |-> <<"park">>, args |-> Absent]

Plain == [kind |-> "extension", extension |-> Word]

OriginateTargets ==
    {[kind |-> "extension", extension |-> t] : t \in LineTexts \cup {Undef}}
      \cup {Application(<<"park">>, t) : t \in LineTexts \cup {Absent}}
      \cup {Inline(<<[name |-> <<"set">>, args |-> t], Park>>) : t \in LineTexts}
      \cup {Inline(<<Park, [name |-> <<"set">>, args |-> t]>>) : t \in LineTexts}

Unset == <<Absent, Absent, Absent, Absent, Absent>>
OriginateSlots ==
    {Unset, [Unset EXCEPT ![5] = <<"30">>]}
      \cup {[Unset EXCEPT ![k] = t] : k \in 1..4, t \in LineTexts \cup {Undef}}
      \cup {[Unset EXCEPT ![1] = InlineDialplan]}

MCPlainLine == [target |-> Plain, slots |-> Unset]
MCLines ==
    {[target |-> t, slots |-> s] : t \in OriginateTargets, s \in {Unset, [Unset EXCEPT ![4] = Word]}}
      \cup {[target |-> t, slots |-> s] : t \in {Plain, Inline(<<Park>>)}, s \in OriginateSlots}

MCArgvSeparators == {NUL, "~"}
MCInlineDelimiters == {NUL, ";", "|"}

(***************************************************************************)
(* Lists somebody else wrote: optional blocks ahead of two or three legs.  *)
(***************************************************************************)
Heads ==
    {<<>>, <<"{", "a", "=", "x", "}">>, <<"<", "a", "=", "x", ">">>,
     <<Space, "{", "local_var_clobber", "=", "true", ",", "a", "=", "x", "}">>,
     <<"<", "origination_nested_vars", "=", "true", ">">>}

Busy == <<"error", "/", "USER_BUSY">>
Device == <<"alsa", "/", "x">>

ListLegs ==
    {<<>>, Busy, <<Space>> \o Device \o <<Space>>, <<"[", "a", "=", "y", "]">> \o Busy,
     <<"[", "k", "=", "y", ",", "a", "=", "z", "]">> \o Device,
     <<"{", "a", "=", "y", "}">> \o Device,
     <<"[", "a", "=", BS, "$", "{", "k", "}", "]">> \o Device,
     <<"[", "origination_nested_vars", "=", "true", "]">> \o Busy,
     <<Quote, "alsa", "/", "x", ",", "y", Quote>>, <<"alsa", "/", "x", BS, ",", "y">>}

ListSeparators == {<<",">>, <<"|">>, EnterpriseDelim}

\* After a head at most one leg is not a plain one; without, both may be.
MCInputs ==
    {h \o a \o s \o b : h \in Heads, a \in ListLegs, s \in ListSeparators, b \in {Device}}
      \cup {h \o b \o s \o a : h \in Heads, a \in ListLegs, s \in ListSeparators, b \in {Device}}
      \cup {a \o <<",">> \o b : a, b \in ListLegs}
      \cup {Busy \o s \o a \o t \o Device : a \in ListLegs, s, t \in ListSeparators}

MCArguments == Texts({BS, Quote, Space, "^", "s", "n", "~", "\t", VT}, 3) \cup {<<>>}
=============================================================================
