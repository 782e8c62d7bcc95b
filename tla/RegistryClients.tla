--------------------------- MODULE RegistryClients ---------------------------
(***************************************************************************)
(* The master called by this library's own nodes, which, unlike the callers *)
(* of MasterRegistry, keep to a protocol: a topic or a service is           *)
(* unregistered only by a process that registered it and has not            *)
(* unregistered it since, and parameters are subscribed to but never        *)
(* unsubscribed from.  The runs that show the code breaking one of its      *)
(* claims use these callers.                                                *)
(***************************************************************************)
EXTENDS MasterRegistry

VARIABLE held  \* <<process, kind, name>>: what a process believes it has registered

ClientInit == Init /\ held = {}

Takes(p, kind, name) == held' = held \cup {<<p, kind, name>>}
GivesUp(p, kind, name) == <<p, kind, name>> \in held /\ held' = held \ {<<p, kind, name>>}

ClientStep(p) ==
  \/ \E s \in Services : \/ RegisterService(p, s) /\ Takes(p, "service", s)
                         \/ UnregisterService(p, s) /\ GivesUp(p, "service", s)
  \/ \E t \in Topics :
       \/ \E type \in Types \cup {AnyType} :
            RegisterSubscriber(p, t, type) /\ Takes(p, "subscriber", t)
       \/ UnregisterSubscriber(p, t) /\ GivesUp(p, "subscriber", t)
       \/ \E type \in Types : RegisterPublisher(p, t, type) /\ Takes(p, "publisher", t)
       \/ UnregisterPublisher(p, t) /\ GivesUp(p, "publisher", t)
  \/ \E k \in Keys :
       \/ RegisterParamSubscriber(p, k) /\ UNCHANGED held
       \/ \E v \in ParamValues : OnParamUpdate(p, k, v) /\ UNCHANGED held

MasterStep ==
  /\ \/ \E w \in Workers : ServeTask(w) \/ ServeEnds(w) \/ ServeFails(w)
     \/ Shutdown
  /\ UNCHANGED held

ClientSpec ==
  ClientInit /\ [][(\E p \in Clients : ClientStep(p)) \/ MasterStep]_<<vars, held>>
=============================================================================
