# A verification project for Arduino_GoogleTV_IP_Remote

The repository is the firmware of an ESP32 that acts as the remote control of a Google TV: it finds TVs
with mDNS, opens a TLS session to the remote-control port of one of them (or to its pairing port),
identifies itself with a certificate it makes and keeps in flash, and exchanges length-prefixed protobuf
packets. The modules of this directory are translated from that code. TLC checks them on small instances;
the `_proofs` modules hold theorems for every value of the constants, checked by TLAPS.

Line numbers without a file name are those of `src/src/GoogleIP_Remote.cpp`; mDNS files are in
`src/managed_components/espressif__mdns/`.

## 1. The system

### 1.1 Tasks

| task | what it runs |
|---|---|
| main task | `main.cpp`: `scanForTvs`, one `connectToTV`, then `loopRemoteConnection` every 500 ms for ever |
| mDNS service task | takes one action at a time from the action queue and executes it under the service lock |
| esp_timer task | every 100 ms, under the service lock: starts and ends searches, sends what is due |
| lwIP task | receives mDNS packets and queues them; TCP; keepalive |
| event loop task | interface up, down and new address become mDNS actions |

There is one session object, one mDNS service and one flash partition. The main task is the only one that
touches the session object, so its difficulties are failures, order and what the TV does in between; the
mDNS component is the concurrent part.

### 1.2 Components

| component | state | operations | talks to | what makes it correct |
|---|---|---|---|---|
| **Session** (`GoogleTvRemote`) | mode, attempts, paired, TLS context, TLS session, socket, receive buffer | `connectToTV`, `disconnect`, `unPair`, `isConnected`, `loopRemoteConnection` with the connect and the pairing dialogue below it | lwIP, wolfSSL, certificate, framing, the TV | no handle lost or used after its base is gone; mode and port agree; attempts bounded; it gives up; paired only by a pairing session |
| **Receive framing** | `readDataCunks` | append what a read brings, dispatch when whole | session | packets handed on whole, in order, once |
| **Pairing encoding** | none | `createPairingRequest`, `pack_message`, `encodeMessegToSend` | session | the length byte holds the length; whole or nothing |
| **Certificate** | two files, mount, open files, heap of the making | `createSSLCtx`, `haveSelfCertificate`, `makeNewSelfCertificate`, `ffat_write_buffer` | FFat, wolfSSL | the two files belong together; every exit frees; a device that tries again gets an identity |
| **Discovery** | list of TVs | `scanForTvs`, `getMacFromIp` | mDNS, ARP | one entry per address; everything heard is listed; names go to the right entry |
| **mDNS queries** | chain of searches, action queue | `mdns_query_*`, the search actions, the timer's walk, answers | service, receiver | nobody waits for ever, no freed search is touched |
| **mDNS service** (`mdns_service.c`) | server, queue, lock, task, timer, handlers | `mdns_init`, `mdns_free`, start, stop, the cleaning of the queue | all mDNS parts | nothing is used after its end, nothing is left behind, `mdns_free` returns |
| **mDNS interfaces** (`mdns_pcb.c`) | a state per interface and protocol, services being probed | enable, disable, announce, probe, schedule | transmit queue | no announcement before three probes |
| **mDNS transmit queue** (`mdns_send.c`) | packets sorted by time | insert, clear, queue for sending, send | interfaces, service | what is due is sent |
| **mDNS responder** (`mdns_responder.c`) | services, delegated hosts, names | add, remove, rename, port, TXT, subtypes, host and instance names | interfaces, transmit queue, receiver | no packet keeps a service that is gone; each service is probed for under its name before the device answers, and then announced |
| **mDNS browser** (`mdns_browser.c`) | browses with their results | begin, end, add PTR, SRV, TXT and address, sync | receiver, queue, notifier | one live result per instance; the listener knows what the cache knows |
| **mDNS receiver** (`mdns_receive.c`, `mdns_utils.c`) | none | decides who wins a name, what is answered, which result a record belongs to | all of the above | two devices end up with two names; giving way ends |
| **mDNS network glue** (`mdns_netif.c`, `mdns_networking_*.c`) | sockets, interfaces | system events, packets | queue | see service |

Set-up, console, debug printing, memory wrappers, generated protobuf code, tests and examples keep no state
that matters here; `PROJECT.json` lists them with the reason.

### 1.3 What is hard here

* **Failing half-way.** A connect takes ten calls, each with an exit of its own that must give back what the
  earlier ones took. Making a certificate has as many. Power can go at any step, and there are two files.
* **Waiting.** `waitForSocket` (1064) has no timeout although its comment (1054) speaks of one;
  `mdns_query_generic` waits without one by design.
* **State left behind.** The receive buffer is not cleared by `disconnect`; `is_paired` is set and not used;
  one file stays open after each `createSSLCtx`.
* **Pointers in a queue.** SEND and END actions hold the bare address of a search that its owner may free
  while the action waits, and the heap may give the address to the next search. TX actions hold that of a packet,
  SYNC actions those of the results of a browse, packets and interfaces those of services.
* **Ends.** `mdns_free` comes at any moment of the event loop, lwIP, the timer and the callers of queries, and
  `mdns_init` can fail at every call. A query asks only whether there is a server, which there is from the first step of
  `mdns_init` to the last of `mdns_free`, and sends without the lock.
* **Several devices.** Who keeps a name is settled by packets that cross, get lost, or come from a device that
  has been switched off.
* **Full queues.** Each mDNS action can be refused, by a queue of sixteen.
* **Undefined behaviour.** Every received message is unpacked through the address of a local pointer (1108,
  1132).

`PROJECT.json` lists these one by one under `hazards`, each at its line, with the properties that would catch
it going wrong, or the reason why none does yet.

## 2. Modules

| module | models | about the translation |
|---|---|---|
| `RemoteConnection` | the session object, one action per handler | a call of `loopRemoteConnection` is split only where the code blocks or where a callee starts; `pc` says where it stands, `idle` between two calls. `link`, `tvDown`, `openFDs`, `ctxLive`, `sslLive` are the TV's, lwIP's and wolfSSL's side |
| `ConnectSupervisor` | what the session promises about its attempts (abstract) | a mode, a count, and the number of times the user asked for a start; refined by `RemoteConnection` |
| `PacketBuffer` | what the session relies on of the buffer (abstract) | refined by `PacketFraming` with the bytes, and by the buffer of `RemoteConnection`: the two models agree on what lies between them |
| `PacketFraming` | `readDataCunks`, byte by byte | records, reads and sessions; bytes are lengths or filler |
| `PairingEncoding` | the request and its length byte | lengths only |
| `SelfCertificate` | `createSSLCtx` and its callees | one action per call that can fail; a file is absent, empty, cut short or the half of a key pair |
| `Discovery` | `scanForTvs`, `getMacFromIp` | an action per query and per answer |
| `MdnsSearch` | `mdns_querier.c` with the queue and the timer | callers, service task, timer and lwIP interleave as the locks allow |
| `QueryPromise` | what the querier promises to those who ask (abstract) | a phase and a number of results for each query, without chain, queue, timer and reused addresses; refined by `MdnsSearch`, where `AsPromised` says what the caller can see of a search |
| `MdnsTransmit` | `mdns_pcb.c` with the transmit list of `mdns_send.c`, the queue and the timer | `pcb[q]` is `s_pcbs` with the readiness that lwIP keeps; an address of `packet` with a pcb is in the list; every action of the service task is the whole handler, the timer's walk is one step per packet |
| `MdnsBrowse` | `mdns_browser.c` with what the receiver does to its results | packets are sequences of records; one is read when its action is executed, and what changed goes into a SYNC. An address of the heap is used once, so a freed result is known for ever; the run ends where one is touched (`dangled`) |
| `MdnsResponder` | services, delegated hosts and names, with the packets of `mdns_send.c` and the pcb | one interface that is up; a packet is its questions, answers, servers and additional answers, each by the service or host it points to; every step holds the lock |
| `MdnsNaming` | several devices and one name: `mdns_receive.c` and `mdns_pcb.c` seen from outside | a device is its address; names are counted (1 as given, 2 with "-2"); packets are lost on the way to each device for itself |
| `MdnsService` | `mdns_init` and `mdns_free` against everybody else | `main` says which call is next, between any two of which the others have their turns; `fault` names what is used after its end, and nothing follows a fault; searches and packets are addresses |
| `MC*` | instances | symmetry sets and sets of inputs; nothing else |
| `*_proofs` | theorems | see 5; those of the four small modules are together in `GoogleIP_Remote_proofs` |
| `Lists` | a list without some of its members, and its first member that is of a set | the former is written as a walk (a recursive function), as the code does it; the library's `SelectSeq` and `SelectInSeq` could not be reasoned about |
| `ListTheorems` | lemmas on lists and natural numbers | what the proofs share |

`PROJECT.json` maps each definition to the lines it stands for. A definition called `Bug...` is a variant of
the one behind it, with a mistake a programmer might make; no action uses it. Each property is known to fail
when the variant named with it in `PROJECT.json` takes the place of the original.

### 2.1 Decisions

* **Undefined behaviour is a choice.** `pb_decode` gets `&message` (1108, 1132), so it writes over the pointer
  and the stack. Three things can come back: an address that panics (`UnpackPanics`), NULL or a message
  without a flag (`UnpackDrops`), or one with a flag set (`UnpackPairing`). The properties hold whichever it
  is. A panic restarts the chip (`Reboot`): what is in RAM is gone.
* **STATUS_OK always panics** (`HandleStatusOk`): the options message has no pairing request, and
  `pack_message` (1181) measures the request's names, `strlen(NULL)`.
* **A negative error passes as success.** `wolfSSL_send(...) < buffer.size()` (301, 382) compares an int with a
  size_t, so that only a short count is noticed. `SendRequest` is the outcome of a success and of an error,
  which are the same to the object.
* **A poll without data is a lost session.** `SSLReceiveBytes` yields on WANT_READ (1031) and its caller
  disconnects on zero bytes (273-284). Thus `LoopReadFailsRemote` needs nothing of the link.
* **Flash.** `FA_CREATE_ALWAYS` empties the file, contents and length reach the flash when it is closed: this
  is what FatFs does, and an assumption about code outside the repository. Mounting formats the partition when
  it cannot mount it (1336, 1402), and then may succeed or fail: both leave neither file.
* **Lines 477-588** follow `disconnect` (454-475) with second definitions of `loopRemoteConnection` and `disconnect`, a
  left-over of a merge. They are not modelled: the functions are those of 231-475.
* **Starts.** The count of attempts goes back to zero at `connectToTV`, at the end of the attempts, with a pairing session,
  and at a restart of the chip. To tell the first from a refund on the way, `ConnectSupervisor` counts the calls of
  `connectToTV` (`starts`): a step that sets the count back and is none of these is no step of it, even if it leads to STARTUP.
* **Searches.** What a search keeps of its answers is their number. A second allocation may get the address of
  the first: `id` tells them apart and is in no guard. Sending has no effect on the search but its time.
* **The transmit list.** It is sorted by time, and only its order among the packets that are due matters: a
  packet becomes due behind all that are (`ahead`). The heap can fail at every packet; when it fails for the
  action of one, the walk ends, as it does at a packet that is not due, and starts there again.
* **A name, no service** (`MdnsTransmit`). `MDNS.begin` (main.cpp:127) sets the name once and waits; the firmware
  registers no service, so a probe is for the name, and two probes of an interface differ in nothing. The services
  of the component are in `MdnsResponder`, on one interface. A new name after a conflict is a
  new start of everything. Without Ethernet no interface duplicates another (`PCB_DUP` is never reached).
* **Interfaces that are down.** A packet carries the protocol it came with even if only the other one is ready,
  and a conflict (mdns_receive.c:1237) then starts a probe on an interface that is not. The next
  `mdns_priv_restart_all_pcbs` clears that probe and restarts only the ready, which leaves it probing without a
  packet. That is why `ProbingHasItsPacket` speaks of ready ones; enabling the interface starts it over.

* **Browse.** A second browse of a service is freed when it is added, although its caller was given the pointer
  (mdns_browser.c:188-214); records that come after the queue refused a SYNC, or in a broken packet, change the
  results without telling the listener (`untold`), until the next change does.
* **Two devices.** An address is compared as a number; two addresses, one of each protocol, may order two devices
  differently, which is left out. A device that loses while it is not probing probes once more for the same name,
  and whoever hears that probe decides.
* **Ends.** One search waits for a caller, others have a notifier; which of the packets and events schedules a
  packet is open. The semaphore of the server (mdns_responder.c:40) is always had. `esp_timer_stop` waits for nothing.
  The handler is one function, registered for WIFI_EVENT (`mdns_priv_netif_init`) and then for IP_EVENT
  (`esp_event_handler_register`); it may run from the first of them on, and is unregistered only when it does not
  run, as the event loop's lock has it. Ethernet is not configured.
* **Queries during the ends.** A query is two steps: it finds the server and allocates (`QueryNew`), and sends
  (`send_search_action`), with anything between them, `mdns_free` as a whole included. What it sends to is the queue as it is then.
  One caller at a time is between the two. `mdns_query_*` stand for the other public calls that ask for the server and
  then send without the lock (browses, host names, actions of further interfaces): those lose an action in the same places,
  and are not modelled apart in `MdnsService`.

## 3. Runs

Bounds are the constants of the `.cfg`. Deadlock is checked where the system cannot stop; the others switch
it off because a bound ends them (packets, scans, queries).

| run | question | result |
|---|---|---|
| `remote` | does the session keep its books over all failures, implement both abstractions, and give up? | holds, 27,834 states |
| `cert` | pairs, exits and eventual success under power cuts and failures | holds, 20,935 states |
| `framing` | refinement, order, delivery over two sessions | holds, 45,258 states |
| `encoding` | lengths of the request | holds, every host name of up to 130 bytes |
| `discovery` | duplicates, completeness, names | holds, 68,711 states |
| `search_safety` | stale pointers, lost waiters, double notification; does it look to the callers as `QueryPromise` says? | holds, 1.8 million states |
| `search_ends` | does every query end? | holds, 152,478 states |
| `transmit` | three probes before an announcement, one packet per probe, marks and actions agree, everything settles | holds, 653,970 states |
| `browse` | is the cache whole, and does the listener know it? | holds until a SYNC meets a freed result (see 4), 2.5 million states |
| `responder` | does a service leave every list when it goes, is it probed for and announced under its last name? | holds, with the exceptions the properties name, 718,853 states |
| `naming` | do devices that want one name end up with different ones, and stop? | holds, 1.2 million states |
| `service` | what is used after its end, what is left behind, does `mdns_free` return? | holds: what is used after its end and what is left behind each has one of the named causes, 1.45 million states |

### 3.1 Why the bounds are enough

* `remote`: an object holds one socket, so a second descriptor suffices to see one lost. Two records tell "the
  last one read" from "more behind it". Two calls of `connectToTV` cover a start in the middle of a session;
  reconnects, panics and TV behaviour are not bounded.
* `cert`: three key pairs give every making a key that neither file has. Four open files are the certificate
  left open by two calls, and the two that a check needs at once; the mount of the chip has ten, which only
  takes longer. Three faults are a cut between the files, one in the next making and a failing callee.
* `framing`: payloads of 0, 1 and 2 bytes against reads of 2 give packets that end with a read, in the middle of
  one, and take two; three packets are enough for two in one record and one behind. Filler can be taken for a
  length.
* `encoding`: service name of 12 bytes as in the code. The limit falls at a host name of 112 bytes.
* `discovery`: two hosts, two addresses and two answers to each of the twelve queries of two scans make every
  case of same host, same address, order and repetition. Hosts without an address share one.
* `search_*`: two addresses and three allocations make the heap reuse one while the other is in the chain. A
  queue of two is full after the first action of each; two packets are one more that is dropped or fills it.
  Liveness is checked with one allocation and one packet less, and without symmetry, which would not be sound.
* `transmit`: two interfaces share a list with room for two packets, so that each can be ahead of the other, be
  cleared under a pending action, and run out of memory. A queue of one is full whenever anything waits. Two
  events (packets from others, system events) come between the name and the steps of probing; time, which is not
  bounded, lets every packet be sent as often as the states ask for.

* `browse`: two services can both have a browse, and a browse can begin again behind an END; three results are two
  of one browse and one that replaces a freed one. The packets are: the PTR record of an instance, its goodbye, its
  SRV record, that of another host with a shorter time to live, two TXT records, an address in front of the SRV
  record of a second instance on the same host, the address with a shorter time to live, PTR records of two types in
  one packet, and one that breaks off. Four records are up to four of these. A queue of two is full with the SYNC of a packet and an END.
* `responder`: three services of which two are live at a time (`MaxServices` is the limit of the code) make removal
  and addition meet in one packet; two types and two instances make every pair of same and different names, one
  delegated host the difference between its services and the device's. Four calls and two packets of others come
  between the packets of probing and announcing, which are not bounded. Addresses and names are interchangeable.
* `naming`: three devices are one that gives way twice, and two that compete for the name it leaves. Three
  power-ons let one device go and come back. Two lost packets are the most for which names must end up different:
  with three, all probes of a joining device can be lost on the way to the running one; if that has the larger address, it takes
  no notice of the announcement that follows, as it wins, and both keep the name. `QuietMeansDistinct` says so (`lost < 3`), and
  holds with `MaxLost = 3` as well (2.4 million states). An inbox of two lets packets of two devices cross.
* `service`: one search is enough to be queued as SEND and as END, waited for, freed from the queue and the chain, and lost at
  any point of `mdns_init` and `mdns_free`; two packets replace each other at the head of the list. A queue of two is full when
  the stop comes after two actions of any kind. Two inits let what the first one left meet the second; two events or
  packets are one that fills the queue and one that is under way at the end. The theorems hold for any number of each.

### 3.2 Fairness, and why the code justifies it

* `remote`: `main` loops for ever with a delay (`WF` of the main task's steps). lwIP ends a SYN that nobody
  answers (`NetFails`). SO_KEEPALIVE, set at 895, ends a connection to a TV that has left the network
  (`tvDown /\ LinkCloses`). Nothing is assumed of the TV: while it is there and silent, the handshake waits, and
  `GivesUp` says nothing about that.
* `cert`: a call runs to its end, and a caller without an identity asks again (the three attempts, then the
  user). Faults are bounded.
* `framing`: the main task reads while there is something to read.
* `search_ends`: the clock runs, the timer is periodic, the task serves its queue, a woken caller runs. The lock
  is a FreeRTOS mutex, which the timer cannot retake for ever while the service task waits for it with a higher
  or equal priority: strong fairness for what is executed under it, weak for all else. Without it the walk of the
  timer could always be in the way. Packets are bounded, as endless traffic could keep the queue full at every
  walk.
* `transmit`: the same tasks and the same lock. That the name is ever set is not assumed, nor that the network
  can be joined.

* `naming`: the interfaces are sent to and read from (`WF` of the step of any device that has something to do).
  Nothing is assumed of which device is first, of the power, or of losses. `MaxInbox` matters here: it makes a device
  read what has come before much more is sent to it, as one does within the 250 ms between two probes; one that sent all its
  probes before it read the first answer could begin again for ever.
* `service`: `mdns_free` goes on once it has begun, and the service task has its turns; nothing of the others. The
  task that is waited for is thus only stopped by its own queue.

## 4. Where the code and its comments part

Six statements of comments are in the modules as definitions (named in brackets). No run lists them, because they are
false of the code: add the name to the `.cfg` of the module's run, and TLC shows the execution described here.

1. *"ok we need to be in paring mode we are not paired"* (286): the fallback to the pairing port never looks at
   `is_paired`. A paired device polls before the TV has said anything, drops the session and pairs again. (`PairedStaysOnRemotePort`, `Remote.cfg`)
2. *"check if we have a cert and provate key on the disk"* (1344): `createSSLCtx` opens the certificate to see
   that it is there (658) and never closes it. When the mount has no file left, a good pair counts as missing
   and is made again. (`OnDiskIsFound`, `Cert.cfg`)
3. *"remeber teh first byte is payload size so use that to make sure we have the full packet read"* (329): the
   test is an equality. Two packets in one read overrun the buffer, and nothing is dispatched until the chip
   restarts (`PacketBuffer` says so: no way leads out of `overrun`). (`AllDispatched`, `Framing.cfg`)
4. The same comment: `disconnect` leaves the buffer alone, so the rest of a packet joins the next session's. (`WholePackets`,
   `Framing.cfg`)
5. *"The passed result pointer is a live node in browse->result"* (mdns_browser.c:62): a SYNC keeps the addresses
   of results. Those of a browse that ended before its turn are freed, and so is a result that said goodbye in two
   packets, of which the first SYNC frees it for the second. (`SyncedResultsAreLive`, `Browse.cfg`)
6. *"Find, remove and free answers and scheduled packets for service"* (mdns_send.c:1776): of the questions, one of
   the type of the service is removed, which may be another instance's, and the question for its host stays,
   although it points to a name that may be freed with the service. (`NothingLeftOfRemoved`, `Responder.cfg`)

Others need no run: they can be read off one line, and the model does as the code. Line 1054 speaks of a timeout
of 60 seconds, and select gets none. The header (line 147) lets the progress callback cancel, and its result is
dropped (1510). `makeNewSelfCertificate` is followed by an inverted test (650-653), so that the call that makes
the certificate returns without loading it and only the retry uses it; `EventuallyLoaded` shows that the retry
is enough. The rounds of a scan are repeated *"to get accurate results"* (148), but a TV whose hardware address
was not found in the first keeps "UNKNOWN", since a listed address is not listed again (104).

In `mdns_send.c` the comment at 1840 asks that the packet of an action be *"consistent with the one pushed"*, and
`send_packet` skips it otherwise. After the queue has refused a packet this can stop the list: the packet behind
it was pushed and is skipped, as it is not at the head; if the first is cleared before it is pushed again, the
second comes to the head with its mark and without an action, and the walk passes over marked packets (1721).
`PushedIsPending` and `Settles` are therefore stated for runs in which no packet was refused (`refused`); with
events lost by a full queue, which the runs include, they hold.

### 4.1 What the models of the mDNS component show beside that

The properties below carry exceptions, and each exception is something the code does:

* `FaultsHaveCauses`: a timer callback that runs while the timer is stopped takes a deleted lock, or pushes actions
  behind the stop, which then free what the lists free again; a stop that finds the queue full deletes the task at once,
  whatever it does; an init that fails after its handlers were registered leaves them to post into a queue that is gone; a
  query posts into it, when it comes before `mdns_init` has made the queue, or after `mdns_free` (or a failing init) has
  deleted it (`strayed`, at one of the points `Queueless`). Besides, every end takes the semaphore from under a caller that
  waits, whatever the order; this is a fault of its own without a cause to name, so the property has no part about it.
* `NothingLeft`: an init that fails with a handler registered leaks what was in the queue, and keeps the handlers if it got as
  far as the task. It is enough that the second registration fails, when an event came after the first. A task that is deleted at
  once leaks the action it had taken. A query leaks its search in a failing init, and between the loop
  that empties the queue and `vQueueDelete` (`Unheard`); a caller may then wait for a search nobody has.
* `ListenerIsUpToDate`: the first TXT record of a known instance is not told to the listener; a SYNC that does not fit
  into the queue is dropped with its changes. An SRV record with a known host and a new port changes nothing (733), so
  the model has no port; addresses of the old host stay when an SRV names another.
* `ProbedBeforeAnswering` and `AnnouncedWhenQuiet`: a new default instance name restarts the interface with the services that
  bear it and drops the probing of others (`unprobed`); what is being announced is dropped when something else
  begins to be probed for, and an announcement is added to a packet that goes to one asker only (`silenced`); the address of
  the device is not announced when it was probed together with services of delegated hosts only. A packet to all that
  answers a question about a service counts as having told of it, whatever the records.
* In `append_host_list` (mdns_send.c:367-383) the walk steps on before it appends: the first delegated host is
  skipped, and the end of the list is passed as a host. An SRV conflict renames the first service of the type
  (mdns_receive.c:984-1037), whichever it was about.
* `mdns_priv_responder_init` (mdns_responder.c:41) frees the server without forgetting it when its semaphore cannot be had, and
  `mdns_priv_responder_free` looks into the server before it asks whether there is one (64, 68).
* One binary semaphore serves the callers of `mdns_hostname_set` and of `mdns_delegate_hostname_add`: with two
  waiting, the one that is woken need not be the one whose action was executed.

## 5. Proofs

All theorems hold for every value of the constants that meets the named assumptions beside the declarations
(the sentinel is no member of its set, bounds are naturals). Each proof has the form: `IInv` is inductive
(`Init => IInv`, `IInv /\ [Next]_vars => IInv'`, one step per action), and implies the property.

| module | theorems | the invariant, and why it is needed |
|---|---|---|
| `RemoteConnection_proofs` | type correctness, `NoLeak`, `NoStaleSession`, `QuietModes`, `ModeFollowsPort`, `BoundedAttempts`, `PairedByPairing`, `Refinement`, `BufferRefinement` | the properties speak of the idle object, their violation starts in the middle of a connect: the invariant says for each value of `pc` which handles exist, which port is being connected and what the count may be |
| `GoogleIP_Remote_proofs` | of `SelfCertificate`: `TypeCorrect`, `EveryExitFrees`, `FilesMatch` | for each step of the making, what the heap holds, and what the two files contain: between the files the old key faces the new certificate, but the old key was emptied, or both belong to no complete pair |
| | of `PacketFraming`: `BufferRefinement`, `PacketsInOrder` | for the first none beyond types: each read of any length maps to a step of `PacketBuffer` or a stutter. For the second `OrderInv`: until a session is lost, what was sent is what was dispatched followed by some packets, and these joined together are the buffer followed by the unread records. `Joined` says what joining means without recursion: there are sums sum[k] = s[k] \o sum[k + 1] over its suffixes, so no induction is needed |
| | of `PairingEncoding`: `LengthByteHolds`, `ShortNamesEncode` | a lemma on sizes: eleven bytes of head room suffice iff the request inside takes one length byte, and then nothing exceeds 255 |
| | of `Discovery`: `NoDuplicates`, `FirstTvStays`, `NobodyIsMissed`, `NamesAreRight` | type correctness and the property; for the last two `HInv`: what is left of a query's answers was heard, a TV that was heard is listed or still to be looked at, every entry's host and address come from one answer |
| `MdnsSearch_proofs` | `TypeCorrect`, `NoFreedSearch`, `NoForeignAction`, `NobodyIsForgotten`, `ToldOnce`, `PromiseKept` | `ListedIsLive`, `WaitersAreServed` and three about the queue: an ADD is of a fresh search that is not listed (`AddsAreFresh`); behind the ADD of an address no stale action of that address follows that is not its own (`NothingBehindAdd`); while an address is in the chain, all actions for it are its own (`ListedOwnsActions`). This is the argument why a bare pointer in the queue does no harm. For `PromiseKept` see below |
| `MdnsTransmit_proofs` | `TypeCorrect`, `ProbesFirst`, `ProbingGoesOn`, `PushedWillBeSent` | for the last see below; for the others `Invariance`, the conjunction over the interfaces of `HoldsFor`: while an interface probes, it has sent at least the probes its state counts, and it has at most one packet, a probe (exactly one when it is ready and had memory); a ready one beyond probing has sent three. No property alone is inductive: that the third probe was the third rests on the count, and the count on every packet of a probing interface being its probe |
| `MdnsReceiver_proofs` | of `MdnsNaming`: `TypeCorrect`, `LowestNames`, `DistinctWhenQuiet` | a packet on the way carries a name within the limit of its sender (`Fair`), whatever name the sender has by now; then a device that gives way to a larger address takes a name within its own limit, because the set of addresses above the other's is smaller (`LimitGrows`). For `DistinctWhenQuiet` see below |
| | of `MdnsBrowse`: `BrowseTypeCorrect`, `CacheStaysWhole`, `ListenerFollows` | see below |
| `MdnsResponder_proofs` | `NoDanglingServices`, `ThreeProbesFirst`, `AllAnnounced` | see below |
| `MdnsService_proofs` | `FaultsAreCaused`, `NothingIsLeft`, `HeapIsExact`, `NothingBehindTheStop` | see below |

**Queries as their callers see them.** `PromiseKept` is `Spec => Promise!Spec`: every step of the callers, the service task, the
timer and the network is a step of `QueryPromise` or changes nothing a caller sees. Allocating asks, the clock passing is
`TimeIsUp`, freeing releases, and what the service task does to a search serves it. `QueryPromise` lets a query end only when it
is late or has all its results, so the step that takes work is the END, an action that was queued some time ago with a bare address.
`PInv` adds to `IInv` what makes that sound: an END on its way whose number is that of the search at its address finds it late
(`Sound`), and every action has the number of an allocation already made, so that a new allocation at the address does not
take over an old END; with `ListedOwnsActions`, the END that finds its address in the chain is the search's own. `Kept`
says that a search that is OFF has ended or is late, which is what makes `mdns_query_async_delete` a release of something
that is over, and that a search whose results were fetched had been told of.

**Two devices with one name.** `DistinctWhenQuiet` rests on an account of the ways in which the device with the smaller address
can still learn that it is not alone (`SmallerWillLearn`): while two devices are on and have one name, the larger is still
probing, or `lost + Chances >= 3`. `Chances` counts the announcements the larger has still to make, the packets on the way that
tell the smaller of it, the probes the smaller has still to send, and its probes on the way to the larger, which will answer them.
A step moves a chance from one place to the next, or loses it together with a packet: a probe to be sent becomes one on its
way, a probe that is read an answer on its way, an announcement to be made one on its way. A device that begins to probe has three
before it. When all is quiet there are no chances left, so three packets were lost. Packets on the way are counted as positions
in an inbox (`Occurs` in `ListTheorems`), about which four lemmas suffice: what the count is of, that it is none in an empty
list, and what appending and taking away do to it.

**Beginning and end of the component.** A state of `MdnsService` with a fault is the end of the run, so the
invariant is `FaultsHaveCauses /\ (fault = None => Sound)`: as long as nothing was used after its end, everything that exists
is accounted for, and from there each step either keeps the account or has one of the causes. `Sound` says

* `Built`: what exists at each point of `mdns_init` and `mdns_free` (task, queue, timer, handlers, lock, sockets);
* `Causes`: what an init that failed leaves behind, which is remembered in `failed`, and why an action may be in a queue that
  is about to be deleted;
* `StopIsLast`: behind a stop in the queue there is only what other threads may add by then: packets, events, the searches of
  queries, and actions of a timer callback that was late. A query can only add an ADD, of a search that is nowhere
  else, so what frees the queue may free it without looking at the lists;
* `HeapIsKept`: what is allocated is a search that is about to be sent, in an ADD, lost with one, or in the chain, or a packet in the
  list, and each in one place only; who waits, waits for one of these. Without the part about places, freeing the queue and
  then the lists could free one address twice. It is kept while the queue is freed action by action, with queries in between.

`NothingIsLeft` follows from `Built` (when the component is down there is no queue and no list) and `HeapIsKept`.

**Services and their packets.** None of the three properties is inductive, and each needs the others' parts. The
invariant of `MdnsResponder_proofs` is typing and `Good`, stated of a schedule (packets, pcb, services not probed for)
rather than of the variables, so that it can be followed through the middle of a step:

* `IsScheduled`: packets and list are of live services, and while the interface probes there is exactly one packet, to
  all, with the services of the list and no others (and a host exactly if the address is probed for);
* `IsProbed`: a service in that list has had as many probes as the state counts, and its question is in the packet, so
  that the next probe counts for it; all others have had three;
* `IsAnnounced`: what nobody has heard of waits in the probe, from which the announcement is made, or in a packet to all.

The step that takes work is freeing services. `delegate_hostname_remove` and `mdns_service_remove_all` free any number in one
handler, and each may end the probing, empty a packet or take the question of another service with it. `ServiceRemoved`
shows that freeing one keeps `Good` for the services that are left, and `ServicesFreed` carries that along the list.

**Packets that are marked.** An action carries a bare address, so the one that sends a packet may be an old one, of a
packet that was at the same address. `PushInv`, the invariant behind `PushedWillBeSent`, therefore speaks of the line
of all actions, the one being executed first: as long as the queue refused none,

* `PushedInOrder`: a marked packet has an action in the line, what is ahead of it in the list is marked too, and behind
  *every* action for what is ahead of it there is one for the packet. An action that comes too early is skipped;
  something marked is then ahead of the packet, with an action in the line, and behind that one there is another;
* `WalkTakesTheRest`: while the timer walks, what it has still to push is what is due and not marked. So nothing is pushed twice
  and nothing is pushed before what is ahead of it;
* `MarkedAreDue`: marked packets are due, and due ones are in the list (whatever the queue did).

What the service task does to the list is put in one form, `Cleared`: some packets go, some that are not marked come, and the
others stay in order.

**Browsing.** `BInv` says what holds until a SYNC meets a freed result, where the run ends:

* `CacheInv`: `CacheIsWhole`, and that the lists of two browses have no result in common and those of browses outside the
  chain are empty. Without these freeing the results of one browse could take one from another;
* `AddsAreFresh`: an ADD is of a browse that was allocated and not added, and there is one ADD for it, so none is twice in the chain;
* `SyncsAreOwn`: the results of a SYNC are of its browse or were freed. So when none of them was freed, the SYNC
  speaks of the results of a running browse, and freeing those that said goodbye leaves no other list with a dead one;
* `SilentBefore`: a browse that was not added has told its listener nothing;
* `UpToDate`: `ListenerIsUpToDate`, stated field by field (`Says`).

The step that takes work is `ParsePacket`, in which any number of records is read one after the other. What holds between two
records is `Mid`, stated of the memory `h` while it is read: the lists are whole (`Whole`), the SYNC being prepared tells of results
of its browse only, and there is no SYNC without one (`Bound`), nothing that was listed is gone or of another instance
(`Grown`), and a result the SYNC does not tell of says what it said before the packet, up to a first TXT
record (`Heard`). Each function of the code that writes a result keeps it, with the result it is writing excepted from `Heard` until
`add_browse_result` has noted it: the lemmas are `PtrKeeps`, `SrvKeeps`, `TxtKeeps`, `StageKeeps` and `IpKeeps`, and
`ReadIsGood` carries them along the packet and the addresses put aside.

**Lists.** `ListTheorems` proves what removing, inserting, taking, prepending and joining do to lists of any length. It
also has induction on natural numbers stated of *sets* (`SetInduction`: a set that has 0 and the successor of each of its
elements is `Nat`), derived from the library's theorem that `<` is well-founded; an operator parameter
is not needed then, which the provers here cannot instantiate. On it rests `WalkExists`: walking along a list with a step
function that maps a set into itself is well-defined and stays in the set; by `WalksAgree` what takes the same steps is the
same walk. The recursive functions of the models (`Without`, the services that are freed one after the other in `FreeServices`,
the records of a packet in `Read` and its addresses in `mdns_priv_browse_apply_staged_ips`) are such walks.

Refinement is proved as an implication between specifications: `Spec => Supervisor!Spec`, `Spec => Promise!Spec` and
`Spec => Buffer!Spec`, with the mapping that the `INSTANCE` states.

Every invariant and every action property of the runs is a theorem. Only model-checked is liveness, which the prover does not
reach: `GivesUp`, `EventuallyLoaded`, `DispatchedUnlessOverrun`, `QueriesEnd`, `FreeReturns`, and `Settles` of both modules that have
one. That they hold is known for the instances of section 3 only.

## 6. Not modelled

The order of modelling was: the program's own code (session, framing, encoding, certificate, discovery); the one-shot
queries, the part of mDNS it calls; the claim of its name; then browsing, the responder, several devices, and the
beginning and end of the component. Left out:

* **Wire formats.** mDNS and protobuf beyond lengths, compressed names, TXT contents: conversions, whose outcome
  here is a record or a broken packet.
* **The clock of queries.** `TimesOut` lets time pass at any moment, which includes what the 32-bit sum (querier
  177) does near its wrap. The byte that holds `max_results` (505) turns 256 into "no limit".
* **Notifiers that call back.** They run under the lock; one that calls the component waits for itself. None in the
  repository does.
* **Duplicates** (`PCB_DUP`, two interfaces on one network), which need Ethernet, and several interfaces with
  services at once: `MdnsTransmit` has the interfaces, `MdnsResponder` the services, and their pcb states agree.
* **Suppression and goodbyes.** Answers that another device gives and the packets of a service that leaves are sent
  or not; nothing in the device depends on it.
* **Lookups** of own services, which copy, and **registration** of further interfaces.
* Cryptography, WiFi set-up, console and debug output, memory wrappers, generated code, tests and examples.
* Running out of heap, except where a module says that it does: `MdnsTransmit` for packets, `MdnsService` for init.

The modules share the action queue: each has the actions of its own part, and `mdns_priv_queue_action` with the same
guard; what another part does to the queue is a shorter queue, which the small bounds make the usual case.

Worth adding next: `Discovery` on top of `QueryPromise`, with its twelve queries as queries of the component, and an abstract
listener for the browser as `QueryPromise` is one for the querier.
