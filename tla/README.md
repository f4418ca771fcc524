# A formal model of Ekiga

Ekiga is a softphone: a GTK front end over an *engine* of cores (calls, video
and audio devices, accounts, presence) that back ends such as OPAL and PTLIB
fill. Its main thread shares state with the threads of OPAL, with media
threads and with two threads of its own, mostly through one queue. This
project models the parts where those threads, and the order of signals, decide
whether the program is right.

## The system

| part | state | operations | meets |
|---|---|---|---|
| `Ekiga::Runtime` (`framework/runtime-glib.cpp`) | a FIFO queue of closures | `run_in_main` from any thread, `dispatch` in the main one; a closure with a delay goes to a timer first | everybody |
| start-up (`framework/kickstart`, `framework/services`, `engine.cpp`) | the services; the sparks that have yet to start, or have started in part | `add_spark`, `kick`, before and after the user interface comes | every core and back end |
| calls (`components/opal/opal-call*.cpp`) | direction, set-up, no-answer timer, end reason | OPAL's callbacks, each in a thread of OPAL's; `answer`, `hang_up` by the user | posts signals to the queue |
| `CallCore` (`protocol/call-core.cpp`) | the calls it is connected to | `add_call`, `remove_call`, forwards every signal of a call | its clients |
| main window, call window (`gui/gtk-frontend`) | `current_call`, `calling_state`, sounds, timers | one handler per signal | `CallCore`, sound scheduler |
| notifications (`plugins/libnotify`), call history | open notifications; a bounded list | one handler per signal, Accept and Reject, `clear` | `CallCore` |
| video input core (`videoinput`) | device, manager, use by preview and stream; a preview thread | `set_device`, `add_device`, `remove_device`, start and stop of preview and stream, `get_frame_data` | user interface, OPAL, HAL, settings |
| video output core, X11 manager (`videooutput`, `components/*-videooutput`) | users, frames, windows; a thread that draws | start, stop, `set_frame_data`; open, draw and close in the thread | preview, OPAL's displays, call window |
| sound scheduler (`audiooutput/audiooutput-scheduler.cpp`) | list of timed events; a thread | `start_play_event`, `stop_play_event`, `quit` | main window, audio output core |
| audio output core (`audiooutput`) | a primary and a secondary device, each with a mutex; `yield` | device operations, `start`, `stop`, `set_frame_data`, `play_buffer` | OPAL, HAL, settings, scheduler |
| audio input core (`audioinput`) | a microphone, its fallback, what the user chose; `yield` | device operations, `start_stream`, `stop_stream`, `get_frame_data` | OPAL, HAL, settings |
| STUN (`opal-call-manager.cpp`) | detector thread, its result, patience | `set_stun_enabled`, `HandleSTUNResult`, `ReportSTUNError` | main window, accounts |
| codecs (`opal-call-manager.cpp`, `opal-gmconf-bridge.cpp`, `codecsbox.cpp`) | the list of OPAL, two lists of the settings, two boxes | `set_codecs`, notifications, ticking and ordering | settings, preferences |
| accounts (`opal-account.cpp`, `opal-bank.cpp`, `sip-endpoint.cpp`) | registration state, compatibility mode, dead accounts; the settings | `enable`, `disable`, `remove`, the form, registration events, `save` | registrar, presence |
| presence (`presence-core.cpp`, `local-roster`, `uri-presentity.cpp`) | interest in each URI, what contacts show, what accounts watch | `fetch_presence`, `unfetch_presence`, add, edit and remove a contact, posts of OPAL | accounts, rosters, chats |
| directory book (`plugins/ldap`) | connection, patience, timers, what was found | refresh, search filter, the form, `remove` | main loop |
| Jabber (`plugins/loudmouth`) | a connection; the roster of the server while it is up | `enable`, `disable`, the form, `remove`; what comes over the stream; add, ask, stop and remove a contact | XMPP server, other programs of the user |
| resource lists (`plugins/resource-list`, `plugins/xcap`) | the list as it was read; sessions without an answer | refresh, add, edit and remove an entry | XCAP server, `PresenceCore` |
| chat, other address books, settings, forms, other plugins | lists | | |

What is hard here: callbacks of several OPAL threads for one call; a deletion
while closures are queued; two calls at once in windows written for one; a
mutex held while another thread is waited for, or locked again at once by a
stream that never rests; a device that fails, is unplugged or is replaced
while it is used; delayed closures that act on a state that has changed since;
answers of a registrar to a request that is no longer the last; interest in a
contact that is declared before there is anybody to declare it to; a
notification that is the echo of one's own write; servers that answer late,
never, or in another order, and whose data others change. `PROJECT.json` lists these
hazards at the line where they bite, with the properties that cover them.

What makes each part correct: of the *queue*, that no signal overtakes the
announcement of its call; of the *start-up*, that everything starts as far as
it can, in whatever order it was added; of a *call*, that its end is reported
once, late enough and under the right name; of a *client*, that what it shows
belongs to a call that is on; of a *device core*, that the device is open
exactly as its users need it, and that what the user chose outlives a
fallback; of a *thread*, that whoever waits for it is answered; of *STUN*,
that the manager becomes ready; of the *codecs*, that settings, boxes and OPAL
come to agree; of the *accounts*, that the last request is answered, that
failures are told and that the settings hold what the user left; of
*presence*, that who is shown is watched, and nobody else; of the *directory
book*, that a search ends and what it found is shown once; of *Jabber* and the
*resource lists*, that the contacts and entries shown are those that the server
has.

## The modules

    CallSignals          what a client of CallCore may rely on (abstract)
      ^ refined by
    OpalCall             calls, OPAL's threads, the timer, the queue, CallCore
      MCOpalCall         two calls, or one;  OpalCall_proofs   theorems

    CallSignals
      ^ instantiated by
    CallClients          main window, call window, notification, history
      MCCallClients      three calls;  CallClients_proofs   theorems

    VideoInput           the camera, its two users and the preview thread
      MCVideoInput       two cameras and the moving logo;
                         VideoInput_proofs   theorems

    VideoOutput          the displays, the preview and the drawing thread
      MCVideoOutput      three instances;  VideoOutput_proofs   theorems

    AudioScheduler       the list of sounds and the thread that plays them
    AudioOutput          the two output devices, three threads, two mutexes
    AudioInput           the microphone, its streams, one mutex
      Audio              the three of them, with the properties of each
        MCAudio          one at a time;  Audio_proofs   theorems

    Startup              sparks that start as far as they can (abstract)
      ^ refined by
    KickStart            the lists that KickStart::kick goes through
    Stun                 the detector, its timers and the errors
    Codecs               the list of codecs in its four places
    LdapBook             the search in a directory
      Services           these four, with the properties of each
        MCServices       one at a time;  Services_proofs   theorems

    AccountStore         what the list of accounts promises (abstract)
      ^ refined by
    Accounts             accounts, subscriber threads, OPAL, the settings
      MCAccounts         a saved account, or an added one;
                         Accounts_proofs   theorems

    Presence             PresenceCore, contacts, chats, accounts as fetchers
    Jabber               an XMPP account and its roster
    ResourceList         a list of contacts at an XCAP server
      People             these three, with the properties of each
        MCPeople         one at a time;  People_proofs   theorems

The composition of calls and clients is by assumption and guarantee:
`OpalCall` shows that calls only tell `CallSignals` behaviours, and
`CallClients` takes exactly the steps that `CallSignals` allows, so what holds
of the clients there holds of them over the calls. Checking the product of
both would add nothing but states: a client has no way to see the difference.
In the same way `Presence` takes from `Accounts` only that an account is
registered, fails or is disabled at any time, and `CallClients` takes from the
list of sounds only how many entries a stop removes.

Some MC modules hold several instances. Their variable `part` is chosen in the
initial state and never changes; a step is one of the instance that it names,
and the variables of the others do not change. So the state space is the sum
of theirs and not their product, each behaviour is a behaviour of one
instance, and each fairness condition is the one of the instance at work. Where
the instances are of different modules, these share no variable in the code
either, except through calls that the modules have as free inputs.

### CallSignals
For every call the signal that was last told (`told`) and its direction. Its
actions are the signals of `call-core.h`: `Setup` first, `Ringing` only for an
outgoing call, `Held` and `Retrieved` of an established one, and one of
`Cleared` and `Missed` at the end, `Missed` only for an incoming call that got
no further than its announcement.

### OpalCall
Per call: who started it (`origin`), what `is_outgoing` says (`outgoing`), how
far the set-up, the timer and the thread in `OnCleared` are (`setup_pc`,
`timer`, `clear_pc`), OPAL's own view (`progress`, `end_reason`); shared: the
`queue` of closures, the `call_connections` of `CallCore`, and what the
clients were told. There is an action for each callback of OPAL (`OnSetUp` in
two halves, as `OnCleared` may run in between; `OnAlerting`, `OnEstablished`,
`OnHold`, `OnCleared` in three), the timer, `answer` and `hang_up`, and one
that runs the closure at the head of the queue. Constants: the set of calls
and `MaxQueue`, a bound on the closures that are queued.

`DestroyCall` deletes a call that has ended at any time after its `OnCleared`
returned, as the code does, also when closures that name the call are still in
the queue. Such a closure is dangling (`IsDangling`): it uses freed memory, and
the model takes two outcomes, that the memory is still as it was and the closure
runs like any other, or that the program stops there, as nothing is promised of
the main loop with a dangling closure at its head (`dispatchLive`). That no
closure dangles is `NoClosureDangles`, which does not hold (see the table below).

Assumed of OPAL, which is not in the repository: it calls `OnSetUp` once, unless
it refuses an incoming call (`RefuseIncoming`), the callbacks of a call in the
order of the call's phases, `OnCleared` once, after an end reason is set.
`OnEstablished` is one step, the signal it posts and the phase that OPAL sets
after it: nothing ends a call in between. A call that OPAL refuses is never set
up, so its `OnCleared` waits for ever: `EndIsReported` leaves it out, and a call
that was deleted with a closure of its own still queued.

### CallClients
The state of each client, and one action per signal that runs the handlers of
all of them: boost signals are synchronous and all handlers run in the main
thread. `sounds` counts the entries that the main window has in the list of
the sound scheduler for each of its two sounds, because a stop takes away only
one. `timers` are the timers that the call window has started and not stopped,
`timeout_id` the one that it knows. `auto` is the setting "auto answer", chosen
freely at each call. `ended` is no state of the code: it lists the calls that
ended since the history was last empty, and `HistoryIsRight` compares the
history with it.
Constants: the calls, the limit of the history, and `MaxEntries`, a bound on
how often one sound is started (it stops `on_ringing_call` only).

### VideoInput
Three threads: the user interface (settings, HAL, the destructor), a media
thread of OPAL, and the preview thread. `cam` holds the current device and
manager and what each manager has open. An operation takes `core_mutex`,
waits for the preview thread when the code calls `VideoPreviewManager::stop`,
and performs the rest in one step, which is sound because the mutex is held
and the rest touches nothing that is used without it, except `frame` and the
flags of the preview thread, which its start sets last. Opening may fail, for
every device but the moving logo, and so may every read. The wait of the
preview thread and the wait for it are PTLIB's `PSyncPoint`s: a flag that
stays up until somebody waits for it. Constants: configurations, devices, the
manager of each. Nothing is bounded: the state space is finite.

The device set by the bridge is always one a manager has listed, so the branch
of `internal_set_manager` for an unknown device is not entered.

### AudioScheduler
The main thread writes `event_list` and `event_file_list`; the thread takes
what is due (`get_pending_event_list`), loads and plays it one by one, computes
how long it may sleep, and sleeps (`scheduler_pc`). `run_thread` is a
`PSyncPoint`, which keeps a signal until somebody waits. Times are relative to
now: `Tick` takes one from every time ahead and from a wait that has an end,
and a time that has passed is `Overdue`, however long ago, because the code
does not tell overdue events apart: the unsigned difference of all of them is
beyond 65535. So the state space is finite without a bound on the clock. How
long a sound plays is open: any number of ticks may pass. A file that cannot be
read is skipped like a disabled event. Constants: events with interval,
repetitions and device, sound files, `Never` (the 65535 that stands for a wait
without an end) and `MaxEvents`, a bound on the list.

### AudioOutput
Three threads: the user interface (`op["ui"]`), the media thread of the
stream, and the scheduler, which plays one sound after the other
(`play.stage`). `core` has the desired and the current device of each of the
two roles, whether they are open and whether a stream is on; `core_mutex` who
holds each of the two mutexes, which a thread may lock again (PTLIB's
`PMutex`). An operation of the user interface locks, performs and unlocks;
`play_buffer` goes in steps, since it plays a sound piece by piece while
others run. `yield` is the flag that makes the stream sleep after a frame, so
that somebody else gets the mutex. Opening may fail, except for the silent
device; the unknown device is one that no manager has listed, for which
`internal_set_manager` falls back.

Volumes, buffer counts and the average level are left out. Two orders of
locking exist in the code (`set_device` of the secondary device, and
`get_devices`), which cannot meet, because all callers are in one thread.

### AudioInput
The same with one device, one mutex and any number of streams. A stream reads
frame by frame (`get_frame_data`); a read that fails closes the device and
opens the fallback in its place. `core.desired` is what the user chose, which
has to survive a fallback. The preview of this core is used by nobody and left
out.

### VideoOutput
Users: the displays of OPAL (`active`, of the kinds local, remote and extended
video) and the preview, which count as two users of the core. Each stores its
frames in two steps, as `set_frame_data` reads what the user chose
(`info`) before it locks `var_mutex` (`pending`). The thread goes through
`Main`: wait, init, redraw, uninit (`thread.at`), and its `redraw` does one of
three things per turn, as in the code: it tells the user interface, makes the
windows anew, or neither. `last` is the memory of what the windows were made
for (`last_frame`, `last_ext_frame`), which has to agree with `window`, what is
really open. Windows may fail to open, and for the picture in picture the code
then goes on with a null pointer (`crashed`, after which nothing more happens).
Sizes are names; a frame is drawn when its size is that of its window, because
`PutFrame` drops it otherwise.

Assumed: the displays of OPAL come from one thread at a time
(`videoDisplay_mutex`), the camera gives no frames to OPAL while the preview
has it, and extended video does not outlast the video of the remote party.
Zoom, the position of windows, acceleration, statistics and the DirectX
manager are left out.

### Stun
`set_stun_enabled` starts a detector thread unless one is known
(`stun_thread`); the detector leaves a result in `queue`, or none; and
`HandleSTUNResult`, posted with a delay of one second, looks at it while its
patience lasts. A NAT that does not suit is reported and not tried again
(`Symmetric` stands for it); the manager gets ready all the same.
`ReportSTUNError` posts itself anew until the main window is there. `awaited` and `untold` say what is still
owed: that the manager becomes ready, and that an error is shown. `Quit` is the
destructor. Constants: `Patience`, 20 in the code, and `MaxReports`, a bound on
the errors that wait at a time.

### Codecs
A codec is a name and a tick. `codecs` is OPAL's list, `media_list` the two
lists of the settings (audio, video), `box` what the preferences show, and
`notified` the keys whose change is yet to be notified. `on_property_changed`
of the bridge reads both lists, calls `set_codecs`, and writes both back if
they differ, which causes the next notification. The loop of `set_codecs` that
removes begins anew after each removal and steps on at once, so that whatever
has become the first is not looked at. What it leaves, `RemoveUnsupported`, is
therefore given by places: a codec goes unless it is supported, or second, after
a first one that goes. (Compared by TLC with the loop, step by step, for all
lists of up to five.) Sample rates and protocols are part of the name.

### AccountStore, Accounts
`AccountStore` is what the user may rely on: the list shown is the list kept,
accounts change only as asked, and a removed one never comes back. `Accounts`
has each account with its state, status, compatibility mode and flags; the
settings (`saved`); the bag of subscriber threads, each a request that will
reach OPAL at some time; OPAL's registration of each address of record
(`handler`, external); and the posted registration events. `Restart` ends the
program at any moment and starts it from the settings. A failed registration is
tried again with the next compatibility mode. An added account has a mode that
the constructor left uninitialised: any of the modes, or none.

`Register` leaves the port of the host out of the address that it registers, and
so out of the one that the events name, while the account keeps it. The constant
`RegisteredAs` says what becomes of each address; where that is another one,
`find_account` finds nobody and the answer is lost. The properties about answers
are therefore about addresses that are registered as they are (`IsNamed`), and
`PortsAreAnswered`, of all of them, is in the table below. `OnRegistrationStatus`
posts nothing for "Trying" and "Request Terminated" (`Silent`). The state and the
status text are kept apart, as the code sets them apart.

Assumed of OPAL: it refreshes and retries by itself; an unregistration of what
it does not know yields no event; whether it looks at the port of what it
unregisters is left open. Passwords, time-outs and names are the flag
`other` of the form.

### Presence
`uri_infos` is the count and the last presence of each URI in `PresenceCore`;
`presentity` what each contact, or other object around a URI, shows; `account`
what each account watches and to what it has subscribed. A handler of the main
loop is one action, built from operators that each stand for one function and
pass a record of the changed state on, in the order of the calls in the code.
`presence_status_in_main` is posted by OPAL's threads. The texts of presence
are mapped to ekiga's words by `PresenceOf` as in the code, of which a run
takes two. Constants say which contacts are edited and which accounts come
late, so that a run can leave those operations out.

### Startup, KickStart
`Startup` gives each spark stages with the services they need and those they
add, and says that any spark may start as far as it can, and nothing more.
`KickStart` has the two lists that `kick` goes through (blank and partial
sparks), the pass it is in, and the services; it implements `Startup` with
`INSTANCE`, and it ends.

### LdapBook
`book` is one record: whether `ldap_context` is open, what the server has been
asked, the patience, the delayed calls that wait for their time, and what is
shown. A function of the code is an operator that yields the set of what the
book may be after it, because it calls the next one directly where it does not
have to wait: so `refresh` is one step up to the first timer, as in the main
thread. Each request may be answered within the second that `ldap_result`
blocks, or later, or never; any message counts for the answer that is waited
for, also the one to the bind, as the code asks for `LDAP_RES_ANY`. What
matches a filter is a constant, and so is the entry (`Header`) that ekiga.net puts
first in each answer, which is not counted. Whether the host is that of ekiga.net
is kept twice, as the settings have it (`ekiga`), which the form changes at once,
and of the connection (`searched`): `refresh_result` looks at the first, so that
an edit during a search makes the number wrong by one. `counted` is no state of
the code: it says what the settings were then, for the property. After `remove` the book is gone, and what
its timers do to it is not modelled.

### Jabber
`account` has the connection of loudmouth, the status, whether the constructor
registered the handlers (the one for accounts from the form does not), and its
settings as they are (`node`) and as they were saved. `heap` is there between
`handle_up` and `handle_down`, with the roster items, who was heard of and
`items_added_by_me`. `parse_roster`, `handle_presence` and each entry of the
menus are one action, also the form that edits a contact and may put it back
into the roster. External: the server, which sends in order over one
stream (`inbox`), pushes each change of the roster and the presence of
contacts that are seen; the contacts, who grant, refuse, come and go; and
another program of the same user. Of a subscription only one direction is kept
(we see them): the other changes what the menus offer, and whom `parse_roster`
asks of those that are new, which is left open. Of the presence of a contact the
property compares what his programs tell (`full`); what his address alone leaves
when he grants or refuses (`bare`) is `PresenceIsTheirs`, which does not hold.
Accounts that are made from the form register no handlers, and the property
leaves them out. Names, groups and chats are left out, and multi-user chats. Left out
too, as a use of freed memory: `parse_roster` steps an iterator whose element
it has removed.

### ResourceList
The heap shows what was read (`shown` counts, as nothing stops an entry from
being shown twice); each request has a session of its own in `pending`, which
the server takes and answers in any order, or which is lost before or after it
was taken. Only "200 OK" is a success, so that the answer to an entry that was
created is an error, after which the code reads the list again as it does after
most successes. `interest` is the count of `PresenceCore` for this list. The
presentities of before a refresh are freed while requests of theirs are on the
way: that nothing comes of the answer is one of the outcomes, and the one taken.
`complete` says that the newest read was answered well, `revived` which entries
were written again by an edit after they were removed.

## The runs

| run | question | states |
|---|---|---|
| `opal_call` | Two calls: do the signals come in the promised order (`SignalsInOrder` is the refinement of `CallSignals`), is the verdict right, though calls are deleted with closures queued? And one call alone: is its end reported? | 2.7 million |
| `call_clients` | Three calls in all orders: do the windows, notifications and history agree with them? | 12 thousand |
| `video_input` | Is the camera open as its users need, and its frame never read into when gone or of another size? | 10 thousand |
| `video_input_stop` | Stopping the preview ends. It may deadlock. | violation |
| `video_output` | Is the display open as used, does the record of the windows agree with them, do start, stop and quit return, are the pictures shown? | 0.7 million |
| `audio` | The scheduler: is a wake-up lost, does the thread sleep too long? The cores: is a device open as its stream needs it, has a stream its device for itself, does a fallback end with the stream? Do the operations of all three return, `quit` among them? | 112 thousand |
| `audio_scheduler_repeats` | While an event has repetitions left, the thread does not sleep for ever. It does. | violation |
| `services` | Is `Startup` implemented, and does the start-up end? Does the manager become ready, is a failure of STUN shown? Do the codecs come to rest, in agreement, with the choices of the user? Is what a directory found shown once, and does each search end? | 82 thousand |
| `accounts` | Are requests answered and failures told, are the watched subscribed to, is `AccountStore` implemented? | 435 thousand |
| `accounts_removed` | A removed account goes away. It may stay. | violation |
| `people` | Are the counts right, is who is shown watched, and nobody else, and shows each what was told? Is the Jabber roster the one of the server, whoever changes it, and is who lets us see him shown while he is there? Is no entry of a resource list missing when all is answered? | 611 thousand |
| `jabber_subscribes` | Only whom this program added is asked to be seen. Others may be. | violation |

### Bounds

* `opal_call`: two calls are enough because calls share only the queue and
  `CallCore`; with two, a closure of one can stand before, between and behind
  those of the other. `MaxQueue` is 2, so that queues fill up and drain in
  every order; the proofs need no bound. The one is made before the other, as
nothing else tells them apart. The end of a call is checked of one
  call, as fairness of a callback is of that call alone.
* `call_clients`: three calls, because the windows treat the current call, the
  one that replaced it and a third one differently. Two history entries for
  three calls make the limit act.
* `video_input`: two cameras of one manager and the logo of another
  distinguish a change within a manager from one between managers; two
  configurations, sizes that differ. Nothing is bounded.
* `video_output`: the instance `pip` has local and remote video and the
  preview, two views and one size; `sizes` has remote video and the preview in
  two sizes; `kinds` adds extended video, for the safety properties only: a
  picture of a stream whose window the user has not been shown is not drawn,
  which is no error. Two sizes are all that a comparison tells apart.
* `audio`: two entries in the list of sounds, so that one becomes due, or
  overdue, while the other is played; an interval of three leaves room to wake
  up early, in time and late, and three repetitions have a first, a middle and
  a last one. For the output a headset, which comes and goes, the silent device
  and one that nobody knows; for the input two microphones and the silent one,
  and one stream.
* `services`: four sparks of the program that depend on one another and a
  plug-in in two stages that waits for the user interface, in all orders and
  with every subset switched off. A patience of 3 instead of 20 has a first, a middle and a
  last look; two errors at a time. Three audio codecs, of which one is not
  supported, and two video codecs, of which one is not, in every selection and
  order, with one codec whose tick is off. A directory with one more entry for
  the one filter than for the other, and the first entry of ekiga.net, at a host
  that is, becomes or ceases to be that one; unbounded, as the patience bounds
  the timers.
* `accounts`: one account. Accounts share nothing but the list that is saved.
  The saved one has one address of record, two subscriber threads, so that they
  overtake each other, and two events; the added one has two addresses, between
  which it is edited, with one thread and one event; and a third instance is the
  saved one edited between an address and the same with a port.
* `people`: two URIs and two contacts, so that both may have the same one
  after an edit; a chat as a third party; a second account for one of the two
  URIs, which comes late; three posted functions, two in the instance with
  edits. One Jabber contact, since the contacts of a roster share only the
  order of the stream; four stanzas on their way, so that a grant, what
  follows it and a push of another program meet. One entry of a resource
  list, and three requests at a time: a read beside an edit beside a removal.
  `MaxInterest` bounds a count that the code lets grow.

### Fairness

* `opal_call`: the main loop goes on dispatching as long as it uses no freed
  memory, OPAL looks at an incoming call and sets up what it accepted, a thread
  of OPAL that is inside a callback leaves it, OPAL clears a call that was
  released; nothing about the user, the remote party or the timer.
* `video_input_stop`: the preview thread and an operation that has begun take
  the steps they can take; nobody has to call anything.
* `video_output`: the drawing thread goes on and its waits end; a call that is
  on and a preview that is on give frames again and again (strongly, as they
  compete for the mutex, and every frame ends the competition for that one);
  once the camera is back with the preview, the local display is destroyed; a
  window that was shown is drawn.
* `audio`: the scheduler's thread runs, a sound comes to its end, time passes;
  each thread goes on with what it has begun, where "it" includes a stream that
  asks for its next frame. A thread that competes for a mutex may lose each
  time: that `yield` helps is what `WhatIsAskedReturns` shows.
* `services`: the start-up is one thread, which goes on. The main loop runs its
  timers and the main window comes up; neither the server of STUN nor the
  directory need answer. A changed key is notified.
* `accounts`: threads run (weakly), OPAL gives an answer, be it that none
  came, and events are handled (strongly, because the bounds close their way
  now and then).

`CHECK_DEADLOCK FALSE` stands where the system may really stop: the calls of a
run are finitely many and may all be over (`opal_call`, `call_clients`); the
video input core can lock up, which is what `video_input_stop` shows, or be
destroyed; so can the audio, the video output and the call manager, which
are destroyed at the end of the program; the start-up ends, and a book may be
removed. The accounts and the rosters never stop.

Every property of a passing run has a mutation of the code's model that breaks
it; the mutated definitions stand before the ones they replace, with a comment
that says so. No run checks a type invariant: it is proved, or the invariant
of the module's theorems has as much of it as they need.

## What is proved

The theorems hold for every value of the constants: any number of calls,
devices, contacts or accounts, and queues of any length. Each module of proofs
has an inductive invariant `IInv`, one lemma per action (or per operator, where
actions share one) that it is kept, and short theorems that follow from it.
`Spec` below is the specification without fairness, which safety does not need.

* `OpalCall_proofs`: type correctness; `NoSignalIsLost`, `VerdictCorrect`; and
  `SignalsImplemented`, that `OpalCall` implements
  `CallSignals`. None of these is inductive. What a client will be told depends
  on the closures that are still queued, so `IInv` describes, for each call,
  the sequence of closures in the queue: the creation first, then what is left
  of the signals in order, one end at the last; and it ties the phases of the
  call's thread to what it has posted.
* `CallClients_proofs`: the five properties of the clients. The main window
  drops a call in favour of another one, so `IInv` says what each of its
  states waits for: a state other than Standby needs a current call or an
  established one, and an incoming ring needs a current call. For the history it
  says that the entries are the last ones of `ended`, none twice.
* `VideoInput_proofs`: `CameraCorrect`, `FrameCorrect`, `FrameLives`. The camera
  agrees with its users only while nobody holds the mutex. `IInv` adds what an
  operation that holds it has found so far, and ties the flags of the preview
  thread to its place: when one operation stops it and the other has not begun,
  the thread is out of the loop that reads.
* `Audio_proofs`: `PrimaryCorrect` and `StreamHasItsDevice` of `AudioOutput`;
  `MicrophoneCorrect` and `ChoiceRestored` of `AudioInput`. The scheduler plays
  a sound through several locks and unlocks, so the mutexes are held over
  several steps. `IInv` says who holds them, the scheduler exactly while it
  plays on the device in question, an operation from when it has locked the
  primary one; and that the primary device is open for the stream or for a
  sound, never for both. The two theorems of the microphone are under
  `OneStream`, that no two streams exist at a time. Without it neither holds,
  see `StreamIsStarted` below; the code has one call with sound at a time.
  `WakesInTime` of `AudioScheduler`: its invariant says which entries the list
  may hold at each place of the thread. The only induction over data here is
  the one over the loop of `get_pending_event_list`; it is done with a least
  counterexample (`LeastOf`, `NewListFacts`), which takes no operator.
* `People_proofs`, of three modules that share no state:
  * `CountsCorrect`, `InterestCorrect`, `NobodyElseCorrect` and
    `PresenceCorrect` of `Presence`. A handler of the code calls through three
    objects, and so do the operators of the model; each has a lemma of what it
    does to the state that is handed on. `Consistent` relates `PresenceCore`,
    its contacts and its fetchers, and speaks of the state that a handler passes
    on too, where the contact that is being built or dropped is not counted.
  * `NothingMissing` of `ResourceList`. A list that is read anew is incomplete
    until the answer is there, so the invariant says of each thing that is
    missing which of the awaited answers will bring it.
  * `RosterCorrect` of `Jabber`. The heap lags behind the server by what is on
    its way in the stream. `Brings` says of a stretch of the stream that it
    turns the item and the presence that the heap has of one contact into those
    of the server; whatever the server does appends to it, whatever the handler
    does takes the first stanza away, and both are composed by one lemma each.
    `Introduced` adds that the item of a contact comes before his presence, as
    the presence of somebody without an item is dropped. The presence is the one
    of the full resource; the account, one from the settings.
* `Accounts_proofs`: `SubscribedCorrect`; `OutcomeCorrect`; and `StoreCorrect`,
  that `Accounts` implements `AccountStore`. For the second, whoever is in the
  state "Processing", shows that word, or a failure that was not told, has a
  thread, a request in OPAL or an event on its way. It is about the accounts whose
  host has no port, and needs `OneAccountPerAor`, that no two accounts have the
  same address of record, as OPAL answers for an address and `find_account` takes
  one account of it. The third needs no such hypothesis:
  what is saved is what is shown, whatever the registrar does.
* `Services_proofs`, of four modules that share no state:
  * `FoundCorrect` of `LdapBook`. A search ends in one of three functions, and
    `Settled` says what each of them leaves: either the connection is closed and
    no timer runs, or it is open, one timer runs and nothing is shown yet. That
    the number is right is proved where the host did not change in between.
  * `StartCorrect` and `StartImplemented` of `KickStart`: the sparks that `kick`
    has tried in a loop are stuck as long as none has gone on in it, and each
    that is not done is in one of the lists. So when a loop ends without
    progress all are stuck. Together they are the abstract `Startup` but for
    its fairness. `ListsCorrect` adds that no spark is ever twice in the lists,
    or in the wrong one: the places where one stands are counted, and what leads
    from one end of a list to the other leaves their number as it is.
  * `StunCorrect` of `Stun`, whose invariant is inductive with the types.
  * `ChoicesCorrect` and `SettledCorrect` of `Codecs`. What holds of the codecs
    holds of lists that a loop makes, entry by entry; see below how this is
    proved without an induction theorem. `Only` of what is picked is what it was
    of the whole if nothing that it asks for was left out (`OnlyPicked`), and
    goes through a concatenation (`OnlyConcat`): so what was chosen is the first
    part of what is left. When nothing is left to notify, the settings are what
    `set_codecs` makes of themselves: a codec that it keeps by mistake came
    after one that it took away (`SettledNames`), and of that the settings
    cannot know any more. That nothing is there twice needs that the lists of
    the settings named nothing twice at the start. Those of the schema do not,
    and no action makes a list that does; the code does not look.
* `VideoOutput_proofs`: `OpenCorrect` and `LastFrameCorrect`. Who uses the
  display is said in three places (the displays of OPAL, the count of the core,
  the thread); `UseInv` ties them through each step of start and stop, and
  `PictureInv` says which windows may be there at each place of the thread.

Assumptions of the proofs: the `ASSUME`s in the modules, which TLC evaluates in
the runs. They say that a value such as `None` is no call, device or account,
that sets of contacts are finite, and that limits are positive; and the
hypotheses named above, each in the theorem that needs it: `OneStream`,
`OneAccountPerAor`, and for `SettledCorrect` that no stored list names a codec
twice. TLC checked each invariant on the instances of the run before it was
taken for proved.

Some properties were stated anew for this, and say no less than before of the
instances that were run. `InterestIsDeclared` is about the accounts that are not
`Late`, `PresenceIsOfItsUri` about contacts that are not `Editable`, and
`FailureIsNotified` about accounts whose compatibility mode was initialised: in
each case the run had left the others out, and what happens to them is in the
table below.

Induction over a list is not among the theorems that the provers can use, since
those of the library take an operator. `ListInduction` is the same with a set in
its place: a set that has the empty list, and `Append(q, e)` whenever it has
`q`, has all lists. It follows from the least counterexample (`LeastOf`), and
that from the well-foundedness of the naturals (`WFMin`), which takes none
either. With it what `Picked` leaves of a list, and how often a spark is in one,
is known for every list.

Every invariant and every action property that a run checks is stated by a
theorem, under the same name: what is said of the parts of `Audio`, `People` and
`Services` is named there, checked in the MC modules that extend them, and
proved in the modules of proofs. Only model-checked is what the prover cannot
say, as it has no ENABLED:

* the liveness: that the end of a call is reported (`EndIsReportedOfOne`), that
  operations and threads return (`WhatIsAskedReturns`, `OperationsReturnOfParts`),
  that single sounds are taken (`SinglesAreTaken`), pictures shown
  (`PicturesAreShown`), requests answered (`SettingsAreAnswered`,
  `DetectionIsAnswered`), and that start, search and codecs come to rest
  (`WhatIsBegunEnds`);
* of `StartupImplemented`, the fairness of `Startup`; its initial state and its
  steps are `StartImplemented`.

## What the texts say and the code does not

Four disagreements have a run that ends with a counterexample, and a finding
in `PROJECT.json` that quotes the text: stopping the preview can lock the
program up (`video_input_stop`); a repeated sound that becomes overdue while
another one plays is forgotten (`audio_scheduler_repeats`); a removed account
whose unregistration fails stays in the list (`accounts_removed`); a Jabber
contact that another program added is asked for a subscription
(`jabber_subscribes`).

The others are stated as definitions too, each with the text it is taken from,
and TLC finds a counterexample within seconds when the definition is put into
a configuration like those of the module's run; no run is kept for them.

| definition | module | what the code does |
|---|---|---|
| `ClearedWasEstablished` | `OpalCall` | `OnCleared` (`opal-call.cpp:417`) emits `cleared` for calls never established |
| `NoClosureDangles` | `OpalCall` | a call is deleted at once when it has ended (`opal-call-manager.cpp:783`), while closures with a plain pointer to it may be queued |
| `NoTimerIsForgotten` | `CallClients` | a second call that is established overwrites `timeout_id` (`call-window.cpp:1150`), and the timer of the first is never stopped |
| `SkipsOnlyDuringACall` | `CallClients` | a missed call stays the current call of the call window (`call-window.cpp:1196`), and the next incoming one is skipped |
| `StoppedSoundIsOver` | `CallClients` | a sound that was started twice is stopped once (`audiooutput-scheduler.cpp:193`) |
| `PreviewFollowsItsSetting` | `VideoInput` | a preview disabled within five seconds of the start-up starts all the same (`videoinput-gmconf-bridge.cpp:140`) |
| `MappingIsAsAsked` | `AudioScheduler` | the first mapping of a sound ignores the device (`audiooutput-scheduler.cpp:294`) |
| `NoNullManager` | `AudioOutput` | `add_device` and `remove_device` clear the manager of the secondary device while a sound plays through it (`audiooutput-core.cpp:412`), where a device is both primary and secondary |
| `ThreadIsTerminated` | `AudioOutput` | the destructor waits for the scheduler with the mutex that the scheduler waits for (`audiooutput-core.cpp:80`) |
| `SetDeviceReturns` | `AudioInput` | `set_device` locks before anything sets `yield` (`audioinput-core.cpp:146`), so a fast stream may keep it out |
| `StreamIsStarted` | `AudioInput` | with two streams, the end of one stops the device of both (`audioinput-core.cpp:319`) |
| `QuitWaitsForAThread` | `Stun` | the destructor waits for a thread that has deleted itself (`opal-call-manager.cpp:182`) |
| `ResultIsUsed` | `Stun` | a result that comes after the patience is looked at by nobody, and no detector is started any more (`opal-call-manager.cpp:871`) |
| `UnsupportedAreRemoved` | `Codecs` | the loop of `set_codecs` skips the first codec after a removal (`opal-call-manager.cpp:427`) |
| `MissingAreDisabled` | `Codecs` | `set_codecs` adds what is missing as enabled (`opal-call-manager.cpp:412`) |
| `PortsAreAnswered` | `Accounts`, with `WithoutPort` | the events of an account whose host has a port name its address without the port (`sip-endpoint.cpp:417`), the account keeps it (`opal-account.cpp:252`), and `find_account` finds nobody (`opal-bank.cpp:308`) |
| `DestructionIsDelayed` | `Accounts` | `remove` looks at the state of the account and not at its threads (`opal-account.cpp:378`) |
| `StatusIsTrue` | `Accounts` | an edit that disables an account unregisters its new address (`opal-account.cpp:569`) |
| `FailureIsNotified`, of all accounts | `Accounts` | the compatibility mode of an added account is not initialised (`opal-account.cpp:152`): nothing may be tried and nothing told |
| `PresenceIsOfItsUri`, of all contacts | `Presence` | an edited contact keeps the status of its old URI and misses what is known of the new one (`local-presentity.cpp:326`) |
| `OneContactOfAUri` | `Presence`, with edits | an edit does not look whether the URI is there already (`local-presentity.cpp:329`) |
| `InterestIsDeclared`, of all accounts | `Presence` | `Bank::add` does not tell the account what was fetched before (`opal-bank.cpp:281`) |
| `OpenedIsOpen` | `VideoOutput` | `device_opened` is posted when a second stream comes before the first was drawn, and no window is open (`videooutput-manager-common.cpp:311`) |
| `NoWindowIsLeaked` | `VideoOutput`, with extended video in two sizes | `close_display` leaves the window of extended video, and the next one takes its place (`videooutput-manager-x.cpp:465`) |
| `FailureIsTold` | `VideoOutput` | a large window that cannot be made is used before it is tested (`videooutput-manager-x.cpp:386`) |
| `NumberIsRight` | `LdapBook` | whether the first entry is counted is asked of the settings (`ldap-book.cpp:918`), which the form may have changed during the search (`ldap-book.cpp:1105`) |
| `FoundIsSearchedFor` | `LdapBook` | a filter that is set during a search empties the list and is not searched for (`ldap-book.cpp:464`) |
| `NoTimerOutlivesTheBook` | `LdapBook` | a timer holds a bare pointer to a book that may be removed (`ldap-book.cpp:782`) |
| `PresenceIsTheirs` | `Jabber` | an address without a resource is taken for a resource, and its "subscribed" or "unsubscribed" for somebody who is there (`loudmouth-heap-roster.cpp:151`) |
| `EditIsSaved` | `Jabber` | an edit that leaves the account disabled is not saved (`loudmouth-account.cpp:411`) |
| `EachIsShownOnce` | `ResourceList` | two reads at a time add all entries twice (`rl-heap.cpp:267`) |
| `InterestEnds` | `ResourceList` | presentities never let go of the presence that they fetched (`rl-presentity.cpp:123`) |

Other things that the models leave out on purpose, although the code has them:
a device of `videoinput-manager-ptlib.cpp:138` that is half open after a
failure; `devices_nbr` in `opal-videoinput.cpp:57`, counted without a lock by
threads outside of this repository; two accounts with the same address of
record (`opal-bank.cpp:300`) or at the same host; and what a use of freed memory
does beyond the outcomes named above.

## Not modelled

See `PROJECT.json` for each component. In short: OPAL, PTLIB and GTK
themselves; everything that only draws or parses (most of the front end's
lines, the pixel operations, the headers of DirectX under `src/win32`);
transfer, DTMF, statistics, volumes; listeners and ports; the H.323
accounts; chat, the address books of Evolution and KDE, the neighbours of
Avahi, the servers themselves, and the storage of settings. Most of the rest of
the repository is of these kinds: state that one thread keeps and shows.

## Plan

No safety property of a run is left to prove. What could come next:

1. `SettledIsRight` without its hypothesis: of settings that somebody else has
   filled with a codec twice, `Len(codecs) = Len(all_codecs)` does not hold.
2. The type invariants of `Stun`, `KickStart`, `AudioScheduler`, `ResourceList` and
   `Jabber` in full. Their theorems have the types that they need in their invariants.
3. A composition of `Accounts` with `Presence`, in place of the assumption that
   an account may register, fail or be disabled at any time.
