------------------------------ MODULE Registry -------------------------------
(***************************************************************************)
(* The handler registry of registry.go: which handler an event goes to.    *)
(* A topic carries typed handlers, one per event type and major version,   *)
(* or a single raw handler that takes every event on it.                   *)
(*                                                                         *)
(* A version is a pair: its major number, and the rest of it.  A field     *)
(* that validateEventDef refuses, empty or not of its pattern, is          *)
(* Malformed.                                                              *)
(***************************************************************************)
EXTENDS Naturals

CONSTANTS
    Topics,      \* the topics of the system
    Types,       \* well-formed event types
    Versions,    \* well-formed schema versions
    MaxInt,      \* the largest int: a longer major does not parse
    Handlers,    \* one per registration
    NoHandler,
    Malformed

ASSUME RegistryAssumption ==
    /\ Versions \subseteq Nat \X Nat
    /\ MaxInt \in Nat
    /\ NoHandler \notin Handlers

(* A handler of the registry, or the missing map entry. *)
Slot == Handlers \cup {NoHandler}

Majors == 0..MaxInt
Routes == [topic : Topics, type : Types, major : Majors]

Registries == [typed : [Routes -> Slot], raw : [Topics -> Slot],
               topics : SUBSET Topics]

newRegistry == [typed  |-> [k \in Routes |-> NoHandler],
                raw    |-> [t \in Topics |-> NoHandler],
                topics |-> {}]

(* strconv.Atoi of the major segment fails when it does not fit an int. *)
HasMajor(version) == version[1] <= MaxInt

majorVersion(version) == version[1]

(* The definitions an application may register a typed handler under. *)
EventDefs == [topic   : Topics \cup {Malformed},
              type    : Types \cup {Malformed},
              version : Versions \cup {Malformed}]

validateEventDef(def) ==
    /\ def.topic # Malformed
    /\ def.type # Malformed
    /\ def.version # Malformed

RouteOf(def) == [topic |-> def.topic, type |-> def.type,
                 major |-> majorVersion(def.version)]

(* addTyped fails on a topic with a raw handler and on a route that is     *)
(* taken; minor versions do not tell routes apart.                         *)
CanAddTyped(r, key) == r.raw[key.topic] = NoHandler /\ r.typed[key] = NoHandler

addTyped(r, key, h) ==
    [r EXCEPT !.typed[key] = h, !.topics = @ \cup {key.topic}]

(* addRaw fails on a topic that has a handler of either sort. *)
CanAddRaw(r, topic) ==
    /\ r.raw[topic] = NoHandler
    /\ \A key \in Routes : key.topic = topic => r.typed[key] = NoHandler

addRaw(r, topic, h) == [r EXCEPT !.raw[topic] = h, !.topics = @ \cup {topic}]

(* A raw handler, when present, takes every event on its topic. *)
lookup(r, key) ==
    IF r.raw[key.topic] # NoHandler THEN r.raw[key.topic] ELSE r.typed[key]

topicList(r) == r.topics

isEmpty(r) == r.topics = {}
=============================================================================
