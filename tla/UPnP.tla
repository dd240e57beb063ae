-------------------------------- MODULE UPnP --------------------------------
(***************************************************************************)
(* pspnet_miniupnc: the thread that looks for a router, the library status *)
(* it publishes, and the port forwards other modules ask for.              *)
(*                                                                         *)
(* adhocctl starts a thread with every Init and stops "the library" with   *)
(* every Term; all threads there are share one status, one device list and *)
(* one set of URLs.  What the router answers is open: it may refuse to     *)
(* forward a port, and to take a forward away; the caller is not told.     *)
(***************************************************************************)
EXTENDS Integers, FiniteSets, FiniteSetsExt

CONSTANTS Finders, \* bound: upnp threads at once
          Lists,   \* bound: device lists in memory at once
          Kept     \* bound: the forwards a router may refuse to take away

ASSUME ListsAssumption == Lists \subseteq Nat \ {0}

VARIABLES
    status,   \* _status: 0, 1 when a router was found, -1 to ask for a stop
    finder,   \* what each upnp thread is about to do
    devlist,  \* _devlist: the list it points to
    lists,    \* the device lists that are allocated
    urls,     \* _urls is filled in
    forwards, \* what the router forwards
    crashed,  \* memory has been used or freed after it was freed
    \* History, which no action reads:
    stuck,    \* forwards the router was asked to take away, and has not
    twice     \* a upnp thread was started beside another

upnpVars == <<status, finder, devlist, lists, urls, forwards, stuck, twice>>

UpnpInit ==
    /\ status = 0
    /\ finder = [w \in Finders |-> "none"]
    /\ devlist = 0
    /\ lists = {}
    /\ urls = FALSE
    /\ forwards = {} /\ stuck = {}
    /\ twice = FALSE

FinderGoes(w, place) == finder' = [finder EXCEPT ![w] = place]
UpnpCrash == crashed' = TRUE /\ UNCHANGED upnpVars

(* miniupnc_start: a new thread, unless it cannot be created.              *)
StartUpnp ==
    \/ /\ \E w \in Finders : finder[w] = "none" /\ FinderGoes(w, "top")
       /\ twice' = (twice \/ \E w \in Finders : finder[w] # "none")
    \/ UNCHANGED <<finder, twice>>

(* The loop of _mainThread: a look at the status, then the resolver, which *)
(* may fail and is tried again a second later.                             *)
Discover(w) ==
    /\ finder[w] = "top" /\ status # -1
    /\ FinderGoes(w, "discover")
    /\ UNCHANGED <<status, devlist, lists, urls, forwards, stuck, twice, crashed>>

DevicesFound(w) ==
    /\ finder[w] = "discover" /\ Lists \ lists # {}
    /\ devlist' = Min(Lists \ lists)
    /\ lists' = lists \cup {devlist'}
    /\ FinderGoes(w, "igd")
    /\ UNCHANGED <<status, urls, forwards, stuck, twice, crashed>>

NothingFound(w) ==
    /\ finder[w] = "discover"
    /\ devlist' = 0
    /\ FinderGoes(w, "top")
    /\ UNCHANGED <<status, lists, urls, forwards, stuck, twice, crashed>>

(* freeUPNPDevlist(_devlist), which leaves the pointer as it is.           *)
FreesList(w, filled) ==
    IF devlist \notin lists THEN UpnpCrash
    ELSE /\ lists' = lists \ {devlist}
         /\ urls' = filled
         /\ FinderGoes(w, "top")
         /\ UNCHANGED <<status, devlist, forwards, stuck, twice, crashed>>

GatewayFound(w) ==
    /\ finder[w] = "igd"
    /\ IF devlist \notin lists THEN UpnpCrash
       ELSE /\ urls' = TRUE
            /\ FinderGoes(w, "address")
            /\ UNCHANGED <<status, devlist, lists, forwards, stuck, twice, crashed>>

NoGateway(w) ==
    /\ finder[w] = "igd"
    /\ FreesList(w, urls)

(* The console's own address is unknown: all is given back.                *)
NoAddress(w) ==
    /\ finder[w] = "address"
    /\ FreesList(w, FALSE)

(* Mutant of Published: ready before the gateway is known.                 *)
PublishedEarly(w) == finder[w] \in {"igd", "address"}

Published(w) == finder[w] = "address"

Publish(w) ==
    /\ Published(w)
    /\ status' = 1
    /\ FinderGoes(w, "serve")
    /\ UNCHANGED <<devlist, lists, urls, forwards, stuck, twice, crashed>>

(* The thread looks at the status once a second.                           *)
Retire(w) ==
    /\ finder[w] = "serve" /\ status # 1
    /\ FreesList(w, FALSE)

FinderEnds(w) ==
    /\ finder[w] = "top" /\ status = -1
    /\ status' = 0
    /\ FinderGoes(w, "none")
    /\ UNCHANGED <<devlist, lists, urls, forwards, stuck, twice, crashed>>

FinderStep(w) ==
    \/ Discover(w) \/ DevicesFound(w) \/ NothingFound(w)
    \/ GatewayFound(w) \/ NoGateway(w) \/ NoAddress(w)
    \/ Publish(w) \/ Retire(w) \/ FinderEnds(w)

-----------------------------------------------------------------------------
(* Mutant of StopStatus: a library that is still looking for a router is   *)
(* asked as well.                                                          *)
StopStatusAlways == -1

(* miniupnc_stop asks a running library to shut down, and waits until the  *)
(* status is 0.  A library that is still looking for a router is not asked.*)
StopStatus == IF status = 1 THEN -1 ELSE status

(* SetRedirectAndTest and RemoveRedirect: nobody looks at the answer.      *)
Forward(f) ==
    /\ \/ forwards' = forwards \cup {f} /\ stuck' = stuck \ {f}
       \/ UNCHANGED <<forwards, stuck>>
    /\ UNCHANGED <<status, finder, devlist, lists, urls, twice, crashed>>

Unforward(f) ==
    /\ \/ forwards' = forwards \ {f} /\ stuck' = stuck \ {f}
       \/ f \in Kept /\ stuck' = stuck \cup (forwards \cap {f}) /\ UNCHANGED forwards
    /\ UNCHANGED <<status, finder, devlist, lists, urls, twice, crashed>>
=============================================================================
