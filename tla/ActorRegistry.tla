--------------------------- MODULE ActorRegistry ----------------------------
(***************************************************************************)
(* The maps of ActorSystem besides the mailboxes: actors_, the two name    *)
(* maps under nameLock_ and linkMap_ under linkLock_.  No operation holds  *)
(* two of the locks, so LinkActor and UnregisterActor are sequences of     *)
(* steps that other threads come between.  Ids are never handed out twice. *)
(***************************************************************************)
EXTENDS Naturals, FiniteSets

CONSTANTS Actors, Names, Threads,
          Pairs,      \* the <<watcher, target>> the application links
          NoActor,    \* id 0: not found
          NoName      \* the empty name

ASSUME RegistryAssumption ==
  /\ NoActor \notin Actors /\ NoName \notin Names
  /\ Pairs \subseteq Actors \X Actors

VARIABLES
  actors, used,
  nameToActor, actorToName,
  linkMap,      \* target -> watchers
  op,           \* the LinkActor or UnregisterActor each thread is inside of
  stop,         \* where phase 5 of Stop stands
  downs,        \* <<watcher, target>>: ActorDown messages put into mailboxes
  leaving,      \* ids UnregisterActor has been called for
  links, late,  \* links made, those among them made when the target was leaving
  quit          \* links given up before the target was leaving

nameVars == <<nameToActor, actorToName>>
ghosts   == <<downs, leaving, links, late, quit>>
registryVars == <<actors, used, nameToActor, actorToName, linkMap, op, stop, downs, leaving,
                  links, late, quit>>

Idle == [at |-> "idle", actor |-> NoActor, watchers |-> {}]

RegistryInit ==
  /\ actors = {} /\ used = {}
  /\ nameToActor = [n \in Names |-> NoActor]
  /\ actorToName = [a \in Actors |-> NoName]
  /\ linkMap = [a \in Actors |-> {}]
  /\ op = [p \in Threads |-> Idle] /\ stop = "before"
  /\ downs = {} /\ leaving = {} /\ links = {} /\ late = {} /\ quit = {}

Free(p) == op[p].at = "idle"
Goto(p, label) == op' = [op EXCEPT ![p].at = label]

RegisterActor(p, a) ==
  /\ Free(p) /\ a \notin used
  /\ used' = used \cup {a} /\ actors' = actors \cup {a}
  /\ UNCHANGED <<nameVars, linkMap, op, stop, ghosts>>

-----------------------------------------------------------------------------
(* Names.                                                                  *)

BadReleased(n) == actorToName        \* mutant: the old holder keeps its reverse entry
\* actorToName_ without the entry of the actor that holds n.
Released(n) ==
  IF nameToActor[n] = NoActor THEN actorToName
  ELSE [actorToName EXCEPT ![nameToActor[n]] = NoName]

\* The actor need not be registered, and may have another name.
RegisterName(p, n, a) ==
  /\ Free(p) /\ a \in used
  /\ nameToActor' = [nameToActor EXCEPT ![n] = a]
  /\ actorToName' = [Released(n) EXCEPT ![a] = n]
  /\ UNCHANGED <<actors, used, linkMap, op, stop, ghosts>>

UnregisterName(p, n) ==
  /\ Free(p)
  /\ nameToActor' = [nameToActor EXCEPT ![n] = NoActor]
  /\ actorToName' = Released(n)
  /\ UNCHANGED <<actors, used, linkMap, op, stop, ghosts>>

-----------------------------------------------------------------------------
(* Links.                                                                  *)

\* LinkActor looks at actors_, releases actorsLock_ and then takes linkLock_.
LinkCheck(p, watcher, target) ==
  /\ Free(p) /\ <<watcher, target>> \in Pairs /\ watcher # target
  /\ watcher \in actors /\ target \in actors
  /\ op' = [op EXCEPT ![p] = [at |-> "link", actor |-> target, watchers |-> {watcher}]]
  /\ UNCHANGED <<actors, used, nameVars, linkMap, stop, ghosts>>

LinkInsert(p) ==
  /\ op[p].at = "link"
  /\ LET t == op[p].actor  new == op[p].watchers \X {t}
     IN /\ linkMap' = [linkMap EXCEPT ![t] = @ \cup op[p].watchers]
        /\ links' = links \cup new
        /\ late' = IF t \in leaving THEN late \cup new ELSE late \ new
        /\ quit' = quit \ new
  /\ op' = [op EXCEPT ![p] = Idle]
  /\ UNCHANGED <<actors, used, nameVars, stop, downs, leaving>>

BadUnlink(w, t) == [linkMap EXCEPT ![w] = @ \ {t}]   \* mutant: arguments swapped
Unlinked(w, t) == [linkMap EXCEPT ![t] = @ \ {w}]

UnlinkActor(p, watcher, target) ==
  /\ Free(p) /\ <<watcher, target>> \in Pairs
  /\ linkMap' = Unlinked(watcher, target)
  /\ links' = links \ {<<watcher, target>>}
  /\ late' = late \ {<<watcher, target>>}
  /\ quit' = IF target \in leaving THEN quit ELSE quit \cup {<<watcher, target>>}
  /\ UNCHANGED <<actors, used, nameVars, op, stop, downs, leaving>>

-----------------------------------------------------------------------------
(* UnregisterActor.                                                        *)

\* The first half of notifyActorDown: take the watchers out of linkMap_.
TakeWatchers(p, a) ==
  /\ Free(p) /\ a \in used
  /\ op' = [op EXCEPT ![p] = [at |-> "notify", actor |-> a, watchers |-> linkMap[a]]]
  /\ linkMap' = [linkMap EXCEPT ![a] = {}]
  /\ leaving' = leaving \cup {a}
  /\ UNCHANGED <<actors, used, nameVars, stop, downs, links, late, quit>>

\* Send drops a message to an unknown id.

NotifyWatcher(p) ==
  /\ op[p].at = "notify"
  /\ \/ \E w \in op[p].watchers :
          /\ downs' = IF w \in actors THEN downs \cup {<<w, op[p].actor>>} ELSE downs
          /\ op' = [op EXCEPT ![p].watchers = @ \ {w}]
     \/ /\ op[p].watchers = {}
        /\ Goto(p, "names")
        /\ UNCHANGED downs
  /\ UNCHANGED <<actors, used, nameVars, linkMap, stop, leaving, links, late, quit>>

ForgetName(p) ==
  /\ op[p].at = "names"
  /\ LET a == op[p].actor
     IN IF actorToName[a] = NoName THEN UNCHANGED nameVars
        ELSE /\ nameToActor' = [nameToActor EXCEPT ![actorToName[a]] = NoActor]
             /\ actorToName' = [actorToName EXCEPT ![a] = NoName]
  /\ Goto(p, "links")
  /\ UNCHANGED <<actors, used, linkMap, stop, ghosts>>

BadWithout(a) == [t \in Actors |-> {}]   \* mutant: clears every list
\* linkMap_ without a, as a target and as a watcher.
Without(a) == [t \in Actors |-> IF t = a THEN {} ELSE linkMap[t] \ {a}]

ForgetLinks(p) ==
  /\ op[p].at = "links"
  /\ linkMap' = Without(op[p].actor)
  /\ Goto(p, "erase")
  /\ UNCHANGED <<actors, used, nameVars, stop, ghosts>>

EraseActor(p) ==
  /\ op[p].at = "erase"
  /\ actors' = actors \ {op[p].actor}
  /\ op' = [op EXCEPT ![p] = Idle]
  /\ UNCHANGED <<used, nameVars, linkMap, stop, ghosts>>

-----------------------------------------------------------------------------
\* Phase 5 of Stop, by a thread of its own: clear the names, then the links.
StopClearNames ==
  /\ stop = "before" /\ stop' = "links"
  /\ nameToActor' = [n \in Names |-> NoActor]
  /\ actorToName' = [a \in Actors |-> NoName]
  /\ UNCHANGED <<actors, used, linkMap, op, ghosts>>

StopClearLinks ==
  /\ stop = "links" /\ stop' = "after"
  /\ linkMap' = [a \in Actors |-> {}]
  /\ links' = {} /\ late' = {}
  /\ UNCHANGED <<actors, used, nameVars, op, downs, leaving, quit>>

RegistryNext ==
  \/ StopClearNames \/ StopClearLinks
  \/ \E p \in Threads :
       \/ LinkInsert(p) \/ NotifyWatcher(p) \/ ForgetName(p) \/ ForgetLinks(p)
       \/ EraseActor(p)
       \/ \E n \in Names : UnregisterName(p, n)
       \/ \E a \in Actors :
            \/ RegisterActor(p, a) \/ TakeWatchers(p, a)
            \/ \E n \in Names : RegisterName(p, n, a)
            \/ \E b \in Actors : LinkCheck(p, a, b) \/ UnlinkActor(p, a, b)

RegistrySpec == RegistryInit /\ [][RegistryNext]_registryVars

-----------------------------------------------------------------------------
(* Properties.                                                             *)

RegistryTypeOK ==
  /\ actors \subseteq used /\ used \subseteq Actors
  /\ nameToActor \in [Names -> Actors \cup {NoActor}]
  /\ actorToName \in [Actors -> Names \cup {NoName}]
  /\ linkMap \in [Actors -> SUBSET Actors]
  /\ op \in [Threads ->
              [at : {"idle", "link", "notify", "names", "links", "erase"},
               actor : Actors \cup {NoActor}, watchers : SUBSET Actors]]
  /\ \A p \in Threads : ~Free(p) => op[p].actor \in Actors
  /\ stop \in {"before", "links", "after"} /\ leaving \subseteq used
  /\ downs \subseteq Actors \X Actors
  /\ links \subseteq Actors \X Actors /\ late \subseteq Actors \X Actors
  /\ quit \subseteq Actors \X Actors

\* GetActorName never gives a name that leads elsewhere at that moment, so that a call goes
\* out under a name of its caller.  (The name may change hands before the answer comes: see
\* AnswersTheAsker of ClusterCall.)
ReverseNames ==
  \A a \in Actors : actorToName[a] # NoName => nameToActor[actorToName[a]] = a

Gone(a) == a \in used \ actors
Awaited(w, t) == Gone(t) /\ w \in actors \ leaving /\ <<w, t>> \in links

\* A watcher that linked before its target began to unregister has been sent
\* ActorDown by the time the target is gone, whatever other links, unlinks and
\* unregistrations run beside it.
WatchersInformed ==
  \A w, t \in Actors :
    (Awaited(w, t) /\ <<w, t>> \notin late /\ (\A p \in Threads : op[p].actor # t))
      => <<w, t>> \in downs

\* A watcher that unlinked before its target began to unregister, and has not
\* linked again, is not told that the target is down.
UnlinkedIsQuiet == quit \cap downs = {}

\* The promise of LinkActor's declaration: when the target is unregistered, the
\* watcher receives ActorDown.  LinkActor checks that the target exists, so a
\* link it made must be answered.
EveryLinkAnswered ==
  \A w, t \in Actors :
    (Awaited(w, t) /\ (\A p \in Threads : op[p].actor # t)) => <<w, t>> \in downs
=============================================================================
