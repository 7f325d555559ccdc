----------------------------- MODULE Configuration -----------------------------
(***************************************************************************)
(* read_config of tools/service/service.cpp and the configurations made    *)
(* from its map.  A line, without its white space, is a record; a value is *)
(* a number or Text.                                                       *)
(***************************************************************************)
EXTENDS Integers, Sequences

CONSTANT Text   \* any value that std::stoi refuses

ASSUME TextAssumption == Text \notin Int

Comment == [kind |-> "comment", name |-> "", value |-> Text]
Blank   == [kind |-> "empty", name |-> "", value |-> Text]
Entry(name, value) == [kind |-> "entry", name |-> name, value |-> value]

(* What a line of a file may be. *)
Lines == {Comment, Blank} \cup [kind: {"entry"}, name: STRING, value: Int \cup {Text}]

(* Without '=' find gives npos, and npos + 1 is zero: the whole line is    *)
(* the name and the value.                                                 *)
Bare(name) == Entry(name, Text)

(* Mutation: a later line for the same key replaces the earlier one. *)
KeyMap_LastWins(lines) ==
  LET entries == {i \in DOMAIN lines : lines[i].kind = "entry"}
      named(n) == {i \in entries : lines[i].name = n}
  IN [n \in {lines[i].name : i \in entries} |->
        lines[CHOOSE i \in named(n) : \A j \in named(n) : j <= i].value]

(* std::map::insert leaves a key that is there as it is. *)
KeyMap(lines) ==
  LET entries == {i \in DOMAIN lines : lines[i].kind = "entry"}
      named(n) == {i \in entries : lines[i].name = n}
  IN [n \in {lines[i].name : i \in entries} |->
        lines[CHOOSE i \in named(n) : \A j \in named(n) : i <= j].value]

(* stoi throws, and with it the constructor of the configuration. *)
Throws(map, names) == \E n \in names \cap DOMAIN map : map[n] = Text

DbNumbers     == {"port"}
ServerNumbers == {"port", "server_count", "order_number", "process_count"}

ServerConfig(map) ==
  [n \in ServerNumbers |-> IF n \in DOMAIN map THEN map[n] ELSE -1]
===============================================================================
