-------------------------- MODULE MC_Configuration --------------------------
(***************************************************************************)
(* Files of up to MaxRules rules of every type, on two listed sensors, one *)
(* that is not and none, written in full, briefly, or backwards with other *)
(* spellings and members the program does not know; files with a defect;   *)
(* every text of up to MaxTokens tokens; and longer texts, whole, cut off  *)
(* after any token, with any token left out, or replaced.  Files of        *)
(* sensors that list a sensor twice, not at all, quoted, or in a comment.  *)
(***************************************************************************)
EXTENDS Configuration

CONSTANTS MaxRules, MaxTokens

MCSensorId == {"TEMP-01", "PRES-01", "VIBR-01"}

S(s) == <<"string", s>>
N(n) == <<"number", n>>
Null == <<"literal", "null">>
Bad  == <<"bad", "">>

ARule(id, type, priority, sensor, op, threshold, consecutive, logic, subs) ==
    [rule_id |-> id, type |-> type, priority |-> priority, sensor_id |-> sensor,
     op |-> op, threshold |-> threshold, consecutive_measurements |-> consecutive,
     logic |-> logic, sub_rules |-> subs]

MCRules ==
    { ARule("R1", "THRESHOLD", 0, "TEMP-01", ">", 3, 1, "", << >>),
      ARule("R2", "THRESHOLD", 2, "TEMP-01", "<=", -3, 1, "", << >>),
      ARule("R3", "STEP_DIFF", 1, "VIBR-01", "<", 0, 1, "", << >>),
      ARule("R4", "STATEFUL", 1, "TEMP-01", ">=", 3, 2, "", << >>),
      ARule("R5", "STATEFUL", 2, "TEMP-01", "!=", 3, 0, "", << >>),
      ARule("R6", "STATEFUL", 2, "PRES-01", ">", 0, 1, "", << >>),
      ARule("R7", "CORRELATION", 2, "", ">", 0, 1, "AND", <<"R1", "R2">>) }

Spelling == [THRESHOLD |-> "simple", STEP_DIFF |-> "step_difference",
             STATEFUL |-> "stateful", CORRELATION |-> "correlation"]

Spelling2 == [Spelling EXCEPT !.THRESHOLD = "threshold", !.STEP_DIFF = "step_diff"]

Level == <<"LOW", "MEDIUM", "HIGH">>

Level2 == <<"low", "medium", "high">>

Joined(texts) ==
    FlattenSeq([n \in 1 .. Len(texts) |->
                   IF n = 1 THEN texts[n] ELSE <<Mark(",")>> \o texts[n]])

Listed(texts) == <<Mark("[")>> \o Joined(texts) \o <<Mark("]")>>

Object(members) == <<Mark("{")>> \o Joined(members) \o <<Mark("}")>>

Member(key, text) == <<S(key), Mark(":")>> \o text

Names(seq) == Listed([n \in 1 .. Len(seq) |-> <<S(seq[n])>>])

InFull(rule) ==
    << Member("rule_id", <<S(rule.rule_id)>>),
       Member("type", <<S(Spelling[rule.type])>>),
       Member("priority", <<S(Level[rule.priority + 1])>>),
       Member("sensor_id", <<S(rule.sensor_id)>>),
       Member("operator", <<S(rule.op)>>),
       Member("value", <<N(rule.threshold)>>),
       Member("consecutive_measurements", <<N(2 * rule.consecutive_measurements)>>),
       Member("logic", <<S(rule.logic)>>),
       Member("conditions", Names(rule.sub_rules)) >>

Unless(default, x, member) == IF x = default THEN << >> ELSE <<member>>

(* Half a measurement more is cut off. *)
Briefly(rule) ==
    << Member("type", <<S(Spelling2[rule.type])>>),
       Member("rule_id", <<S(rule.rule_id)>>) >>
      \o Unless(0, rule.priority, Member("priority", <<S(Level2[rule.priority + 1])>>))
      \o Unless("", rule.sensor_id, Member("sensor_id", <<S(rule.sensor_id)>>))
      \o Unless(">", rule.op, Member("operator", <<S(rule.op)>>))
      \o Unless(0, rule.threshold, Member("value", <<N(rule.threshold)>>))
      \o Unless(1, rule.consecutive_measurements,
                Member("consecutive_measurements",
                       <<N(2 * rule.consecutive_measurements + 1)>>))
      \o Unless("", rule.logic, Member("logic", <<S(rule.logic)>>))
      \o Unless(<< >>, rule.sub_rules, Member("sub_rules", Names(rule.sub_rules)))

Unknown == Member("description", Object(<<Member("type", Listed(<<<<Null>>>>))>>))

Backwards(rule) == <<Unknown>> \o Reverse(Briefly(rule))

Written(list, style(_)) ==
    Listed([n \in 1 .. Len(list) |-> Object(style(list[n]))])

RuleLists == BoundedSeq(MCRules, MaxRules - 1)

Means(list) == [verdict |-> "rules", rules |-> list]

Anything == [verdict |-> "any", rules |-> << >>]

Defect == [verdict |-> "defect", rules |-> << >>]

Yaml1 == << <<"sensors:">>, <<" ", "- id:", " ", "TEMP-01">>, <<" ", "- id:", " ", "PRES-01">> >>
Yaml2 == << <<"- id:", "'", "PRES-01", "'", " ">>, << >>, <<"name:", " ", "TEMP-01">>,
            <<" ", "id:", "TEMP-01">>, <<"- id:", " ", "PRES-01">> >>
Yaml3 == << <<"- id:", " ", "'", "'">>, <<" ">>, <<"-", " ", "id:", "PRES-01">>,
            <<"- id:", "TEMP-01", " ", "# hot">> >>

ARuleList == << ARule("R1", "THRESHOLD", 0, "TEMP-01", ">", 3, 1, "", << >>) >>

One(rule) == Object(InFull(rule))

WithMember(n, members) == ReplaceAt(InFull(ARuleList[1]), n, members)

DefectiveRules ==
    { Joined(Tail(InFull(ARuleList[1]))), Joined(RemoveAt(InFull(ARuleList[1]), 2)),
      Joined(WithMember(2, Member("type", <<S("other")>>))),
      Joined(WithMember(2, Member("type", <<N(1)>>))),
      Joined(WithMember(3, Member("priority", <<Null>>))),
      Joined(WithMember(5, Member("operator", <<S("other")>>))) }

DefectiveTexts ==
    { Listed(<<One(ARuleList[1]), <<Mark("{")>> \o text \o <<Mark("}")>> >>) :
          text \in DefectiveRules }
      \cup { One(ARuleList[1]), Listed(<<One(ARuleList[1]), <<S("R1")>> >>),
             Front(Listed(<<One(ARuleList[1])>>)),
             Listed(<<One(ARuleList[1]), << >> >>) }

(* More measurements than an int counts; the first of two members; a null  *)
(* that hides the sub-rules.                                               *)
OddTexts ==
    { Listed(<< Object(WithMember(7, Member("consecutive_measurements", <<N(9)>>))) >>),
      Listed(<< Object(WithMember(8, Member("type", <<S("stateful")>>))) >>),
      Listed(<< Object(Append(WithMember(9, Member("conditions", <<Null>>)),
                              Member("sub_rules", Names(<<"R1">>)))) >>) }

SmallTokens == Marks \cup {S("R1"), N(1), Null, Bad}

Longer ==
    { Listed(<<Object(<< >>), Listed(<< >>)>>),
      Listed(<<<<Null>>, <<N(1)>>, Listed(<<<<S("R1")>>>>)>>),
      Listed(<<Object(<<Member("R1", <<S("R1")>>), Member("R1", <<N(1)>>)>>),
               Object(<<Member("R1", Object(<< >>))>>)>>) }

Cut(text) == {SubSeq(text, 1, n) : n \in 0 .. Len(text)}

Without(text) == {RemoveAt(text, n) : n \in 1 .. Len(text)}

Replaced(text) == {[text EXCEPT ![n] = t] : n \in 1 .. Len(text), t \in SmallTokens}

OtherTexts ==
    BoundedSeq(SmallTokens, MaxTokens)
      \cup UNION {Cut(s) \cup Without(s) \cup Replaced(s) : s \in Longer}
      \cup OddTexts

MCFiles ==
    {[yaml |-> Yaml2, text |-> Written(list, InFull), meant |-> Means(list)] :
        list \in BoundedSeq(MCRules, MaxRules)}
      \cup
    UNION {{[yaml |-> y, text |-> Written(list, InFull), meant |-> Means(list)],
            [yaml |-> y, text |-> Written(list, Briefly), meant |-> Means(list)],
            [yaml |-> y, text |-> Written(list, Backwards), meant |-> Means(list)]} :
              y \in {Yaml1, Yaml2, Yaml3}, list \in RuleLists}
      \cup {[yaml |-> Yaml1, text |-> text, meant |-> Defect] : text \in DefectiveTexts}
      \cup {[yaml |-> << >>, text |-> text, meant |-> Anything] : text \in OtherTexts}

MCStrings ==
    UNION {{t[2] : t \in {u \in ToSet(file.text) : u[1] = "string"}} : file \in Files}

MCNumbers == -3 .. 9

MCIntMin == -3
=============================================================================
