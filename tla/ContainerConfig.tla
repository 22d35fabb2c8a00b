--------------------------- MODULE ContainerConfig ---------------------------
(***************************************************************************)
(* What an update makes of a container's own settings, over any number of  *)
(* updates and roll-backs: its command line, labels and networks are read  *)
(* from the old container, compared with the image, passed to the docker   *)
(* CLI, which cannot express all of them, and inspected again next time.   *)
(*                                                                         *)
(* A container does not say what its user gave and what its image had.     *)
(* The settings that get_container_config copies unchanged are left out,   *)
(* and so is the working directory.                                        *)
(***************************************************************************)
EXTENDS Naturals, Sequences, Functions

CONSTANTS
    Images,      \* the image configs: records of entry, cmd and labels
    Networks,    \* those of the host, in the order docker lists them
    Bare,        \* networks without endpoint settings: "host", "none"
    Unsafe,      \* label keys the CLI refuses: empty, or with a space
    KeepsMac,    \* the docker API is 1.44 or later, or its version unknown
    Users        \* what users give at first: entry, cmd, labels, nets, mode

(* Labels and networks are dictionaries: functions from some set to S.     *)
Dictionary(f, S) == f \in [DOMAIN f -> S]

EndpointSettings == [alias : BOOLEAN, fixed : BOOLEAN]
SettingsOf(e)    == [alias |-> e.alias, fixed |-> e.fixed]
Plain            == [alias |-> FALSE, fixed |-> FALSE]

(* docker gives a container that has no network namespace of its own no    *)
(* other network, and nothing can be set for that one.  An entrypoint is   *)
(* <<>> when it is not given, and <<words>> when it is; a user who clears  *)
(* it, with <<<<>>>>, gives a command.                                     *)
OneIfBare(mode, nets) ==
    \A n \in DOMAIN nets : IF mode \in Bare THEN n = mode /\ SettingsOf(nets[n]) = Plain
                                           ELSE n \notin Bare

ASSUME ConfigAssumption ==
    /\ KeepsMac \in BOOLEAN
    /\ Networks \in Seq(STRING)
    /\ \A i \in Images :
          /\ i.entry \in Seq(STRING) /\ i.cmd \in Seq(STRING)
          /\ Dictionary(i.labels, STRING)
    /\ \A u \in Users :
          /\ u.cmd \in Seq(STRING)
          /\ u.entry # <<>> => u.entry[1] \in Seq(STRING)
          /\ u.entry # <<>> => u.entry[1] # <<>> \/ u.cmd # <<>>
          /\ Dictionary(u.labels, STRING) /\ Dictionary(u.nets, EndpointSettings)
          /\ DOMAIN u.nets \cup {u.mode} \subseteq Range(Networks)
          /\ OneIfBare(u.mode, u.nets)

VARIABLES
    container,   \* entry, cmd, labels, nets (to endpoints), mode, image, running
    given,       \* what the user gave: entry, cmd, labels, nets
    front,       \* the image's entrypoint the user's command was given for
    excused      \* coincided, shadowed, missed and moved: see Excuses

configVars == <<container, given, front, excused>>

Overridden == given.entry # <<>> \/ given.cmd # <<>>
OwnEntry   == IF given.entry = <<>> THEN <<>> ELSE given.entry[1]

(* The values of f, and those of g where f has none.                       *)
Merge(f, g) == [x \in DOMAIN f \cup DOMAIN g |-> IF x \in DOMAIN f THEN f[x] ELSE g[x]]

-----------------------------------------------------------------------------
(* docker.                                                                 *)

Generated == "generated"    \* a MAC address docker made up

(* An entrypoint that is given clears the image's command.                 *)
Argv(config, image) ==
    IF config.entry # <<>>
    THEN [entry |-> config.entry, cmd |-> config.cmd]
    ELSE [entry |-> image.entry,
          cmd |-> IF config.cmd # <<>> THEN config.cmd ELSE image.cmd]

Created(config, image) ==
    [entry |-> Argv(config, image).entry, cmd |-> Argv(config, image).cmd,
     labels |-> Merge(config.labels, image.labels),
     nets |-> [n \in {config.network} |->
                [alias |-> config.alias, fixed |-> config.fixed, mac |-> config.mac]],
     mode |-> config.network, image |-> image, running |-> FALSE]

-----------------------------------------------------------------------------
(* get_container_net_kwargs.                                               *)

(* The first network of a set.                                             *)
First(nets) ==
    LET places == {i \in DOMAIN Networks : Networks[i] \in nets}
    IN  Networks[CHOOSE i \in places : \A j \in places : i <= j]

(* Mutant of MainOf: the first attachment listed is the main one.          *)
MainOfListed(c) == IF DOMAIN c.nets = {} THEN c.mode ELSE First(DOMAIN c.nets)

MainOf(c) == IF DOMAIN c.nets = {} \/ c.mode \in DOMAIN c.nets THEN c.mode
                                                              ELSE First(DOMAIN c.nets)

Others(c) == DOMAIN c.nets \ {MainOf(c)}

(* The address of the main endpoint, or else of the first other one with a *)
(* static IP: only the main endpoint can be given one.                     *)
Mac(c) ==
    LET fixed == {n \in DOMAIN c.nets : c.nets[n].fixed}
    IN  IF KeepsMac /\ c.mode \notin Bare /\ fixed # {}
        THEN c.nets[IF MainOf(c) \in fixed THEN MainOf(c) ELSE First(fixed)].mac
        ELSE Generated

NetKwargs(c) ==
    LET kept == c.mode \notin Bare /\ MainOf(c) \in DOMAIN c.nets
    IN  [network |-> MainOf(c), mac |-> Mac(c),
         alias |-> kept /\ c.nets[MainOf(c)].alias,
         fixed |-> kept /\ c.nets[MainOf(c)].fixed]

-----------------------------------------------------------------------------
(* get_container_config, and diff_container_config_with_image.             *)

(* Mutant of ArgvKwargs: the other words of the entrypoint are dropped.    *)
ArgvKwargsOfOneWord(c) ==
    IF c.entry = c.image.entry /\ c.cmd = c.image.cmd
    THEN [entry |-> <<>>, cmd |-> <<>>]
    ELSE IF c.entry = <<>> THEN [entry |-> <<>>, cmd |-> c.cmd]
    ELSE [entry |-> <<Head(c.entry)>>, cmd |-> c.cmd]

(* Entrypoint and command are passed if the pair differs from the image's. *)
(* The CLI takes an entrypoint of one word: its other words move to the    *)
(* command.  An empty entrypoint, or command, is not passed.               *)
ArgvKwargs(c) ==
    IF c.entry = c.image.entry /\ c.cmd = c.image.cmd
    THEN [entry |-> <<>>, cmd |-> <<>>]
    ELSE IF c.entry = <<>> THEN [entry |-> <<>>, cmd |-> c.cmd]
    ELSE [entry |-> <<Head(c.entry)>>, cmd |-> Tail(c.entry) \o c.cmd]

Without(labels, keys) == Restrict(labels, DOMAIN labels \ keys)

GetConfig(c) ==
    [entry |-> ArgvKwargs(c).entry, cmd |-> ArgvKwargs(c).cmd,
     network |-> NetKwargs(c).network, mac |-> NetKwargs(c).mac,
     alias |-> NetKwargs(c).alias, fixed |-> NetKwargs(c).fixed,
     labels |-> Without(c.labels, Unsafe)]

(* Mutant of Merged: the labels are passed as they are.                    *)
MergedWithAll(config, remote) == config

(* A label whose key the new image has is left to the image.               *)
Merged(config, remote) ==
    [config EXCEPT !.labels = Without(@, DOMAIN remote.labels)]

-----------------------------------------------------------------------------
(* The commands connect the other networks, once the container runs; one   *)
(* that fails is recorded and left.                                        *)
Connected(new, old, done) ==
    [new EXCEPT !.nets = Merge(@, [n \in done |-> [old.nets[n] EXCEPT !.mac = Generated]]),
                !.running = TRUE]

(* What excuses a setting from being kept, from what an update finds and   *)
(* what fails: the pair equals the image's, and looks like no override; an *)
(* image brings a label with the key; there is no network, a command fails,*)
(* or the container has other networks and is not started; a network is    *)
(* not the one of the mode.  An image brings the entrypoint if there is    *)
(* none.                                                                   *)
Excuses(image, failing) ==
    LET nets    == DOMAIN container.nets
        started == container.running \/ image = container.image
    IN  /\ excused' = [
              coincided |-> \/ excused.coincided
                            \/ /\ container.entry = container.image.entry
                               /\ container.cmd = container.image.cmd,
              shadowed |-> excused.shadowed \cup DOMAIN image.labels,
              missed |-> \/ excused.missed \/ nets = {} \/ failing # {}
                         \/ ~started /\ \E m, n \in nets : m # n,
              moved |-> excused.moved \cup (nets \ {container.mode})]
        /\ front' = IF front \o OwnEntry = <<>> THEN image.entry ELSE front

(* A container that did not run is created, and that is all.               *)
Updated(image, done) ==
    LET new == Created(Merged(GetConfig(container), image), image)
    IN  container' = IF container.running THEN Connected(new, container, done) ELSE new

(* The previous image again, the config unmerged, and always started.      *)
RolledBack(done) ==
    container' = Connected(Created(GetConfig(container), container.image), container, done)

Update ==
    \E image \in Images, failing \in SUBSET Others(container) :
        /\ \/ image # container.image /\ Updated(image, Others(container) \ failing)
           \/ image = container.image /\ RolledBack(Others(container) \ failing)
        /\ Excuses(image, failing)
        /\ UNCHANGED given

-----------------------------------------------------------------------------
(* The user.                                                               *)

(* The MAC of an endpoint is named after the network it was given for.     *)
Endpoint(n, e) == [alias |-> e.alias, fixed |-> e.fixed, mac |-> n]

ConfigInit ==
    \E user \in Users, image \in Images, running \in BOOLEAN :
      LET argv == IF user.entry = <<>> THEN Argv([entry |-> <<>>, cmd |-> user.cmd], image)
                  ELSE [entry |-> user.entry[1], cmd |-> user.cmd]
      IN
        /\ given = [entry |-> user.entry, cmd |-> user.cmd, labels |-> user.labels,
                    nets |-> user.nets]
        /\ container = [entry |-> argv.entry, cmd |-> argv.cmd,
                        labels |-> Merge(user.labels, image.labels),
                        nets |-> [n \in DOMAIN user.nets |-> Endpoint(n, user.nets[n])],
                        mode |-> user.mode, image |-> image, running |-> running]
        /\ front = IF user.entry = <<>> THEN image.entry ELSE <<>>
        /\ excused = [coincided |-> FALSE, shadowed |-> Unsafe, missed |-> FALSE, moved |-> {}]

Toggle ==
    /\ container' = [container EXCEPT !.running = ~@]
    /\ UNCHANGED <<given, front, excused>>

Connect(n) ==
    /\ container.mode \notin Bare /\ n \notin Bare /\ n \notin DOMAIN container.nets
    /\ \E e \in EndpointSettings :
          /\ container' = [container EXCEPT !.nets = Merge([m \in {n} |-> Endpoint(n, e)], @)]
          /\ given' = [given EXCEPT !.nets = Merge([m \in {n} |-> e], @)]
    /\ UNCHANGED <<front, excused>>

Disconnect(n) ==
    /\ n \in DOMAIN container.nets \ Bare
    /\ container' = [container EXCEPT !.nets = Without(@, {n})]
    /\ given' = [given EXCEPT !.nets = Without(@, {n})]
    /\ UNCHANGED <<front, excused>>

ConfigNext ==
    \/ Update
    \/ Toggle
    \/ \E n \in Range(Networks) : Connect(n) \/ Disconnect(n)

ConfigSpec == ConfigInit /\ [][ConfigNext]_configVars

-----------------------------------------------------------------------------
(* However often a container is updated, and wherever its words are moved  *)
(* between entrypoint and command, it runs the words its user gave.  In    *)
(* front of a command that was given alone stands the entrypoint of the    *)
(* image it was given for, later images notwithstanding; in front of one   *)
(* whose entrypoint was cleared, that of the first image that has one, for *)
(* the CLI cannot clear it (container_config.py:99-112).  A container whose*)
(* user gave no words runs those of its image, and from then on also one   *)
(* whose pair was equal to the image's at an update.                       *)
ArgvKept ==
    container.entry \o container.cmd =
        IF Overridden /\ ~excused.coincided
        THEN front \o OwnEntry \o given.cmd
        ELSE container.image.entry \o container.image.cmd

(* A label of the user's is never lost, unless the CLI refuses it or an    *)
(* image brings one with its key; and a label that the running image has,  *)
(* and the user did not give, has this image's value, also when an image   *)
(* before it had another.  (A label of an image before it that the running *)
(* image has not stays: container_config.py:37-59, 118-122.)               *)
LabelsKept ==
    /\ \A k \in DOMAIN given.labels \ excused.shadowed :
          k \in DOMAIN container.labels /\ container.labels[k] = given.labels[k]
    /\ \A k \in DOMAIN container.image.labels \ DOMAIN given.labels :
          container.labels[k] = container.image.labels[k]

(* Whatever network an update takes for the main one, the container is in  *)
(* exactly the networks its user connected it to, each with its alias and  *)
(* static address, if at every update no connect command failed, it had a  *)
(* network, and it had one only or was started; and the static endpoint of *)
(* a network that was the mode's at every update has the MAC address it    *)
(* was given, where docker can do that (get_container_net_kwargs.py:54-97, *)
(* update_actions_executor.py:218-232, 276-281).                           *)
NetworksKept ==
    /\ ~excused.missed => [n \in DOMAIN container.nets |-> SettingsOf(container.nets[n])]
                             = given.nets
    /\ \A n \in DOMAIN container.nets \ (excused.moved \cup Bare) :
          KeepsMac /\ container.nets[n].fixed => container.nets[n].mac = n

-----------------------------------------------------------------------------
(* What holds at every step and makes the properties above hold.           *)

Endpoints == [alias : BOOLEAN, fixed : BOOLEAN, mac : Range(Networks) \cup {Generated}]

ConfigTypeOK ==
    /\ DOMAIN container = {"entry", "cmd", "labels", "nets", "mode", "image", "running"}
    /\ container.entry \in Seq(STRING) /\ container.cmd \in Seq(STRING)
    /\ Dictionary(container.labels, STRING) /\ Dictionary(container.nets, Endpoints)
    /\ DOMAIN container.nets \cup {container.mode} \subseteq Range(Networks)
    /\ container.image \in Images /\ container.running \in BOOLEAN
    /\ DOMAIN given = {"entry", "cmd", "labels", "nets"}
    /\ \E user \in Users : /\ given.entry = user.entry /\ given.cmd = user.cmd
                           /\ given.labels = user.labels
    /\ Dictionary(given.nets, EndpointSettings)
    /\ front \in Seq(STRING)
    /\ DOMAIN excused = {"coincided", "shadowed", "missed", "moved"}
    /\ excused.coincided \in BOOLEAN /\ excused.missed \in BOOLEAN

(* If the user gave no words, or they were taken for the image's, then     *)
(* entrypoint and command are those of the image word by word, not only    *)
(* taken together: else an update would pass them on to the next image.    *)
(* Otherwise the entrypoint is empty only when nothing is to stand there.  *)
WordsHeld ==
    IF Overridden /\ ~excused.coincided
    THEN container.entry = <<>> <=> front \o OwnEntry = <<>>
    ELSE container.entry = container.image.entry /\ container.cmd = container.image.cmd

(* The image's labels are there, and what the CLI refuses is excused.      *)
LabelsHeld ==
    /\ DOMAIN container.image.labels \subseteq DOMAIN container.labels
    /\ Unsafe \subseteq excused.shadowed

ConfigIInv ==
    /\ ConfigTypeOK
    /\ WordsHeld
    /\ LabelsHeld
    /\ OneIfBare(container.mode, container.nets)
    /\ ArgvKept
    /\ LabelsKept
    /\ NetworksKept
=============================================================================
