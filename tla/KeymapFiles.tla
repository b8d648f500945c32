----------------------------- MODULE KeymapFiles -----------------------------
(***************************************************************************)
(* A control scheme in its three forms: the controls the editor shows      *)
(* (ControlNode), the JSON file KeyMapProfileStore writes and reads, and   *)
(* what the engine makes of that file (KeyMap, InputConvertGame).  Pure    *)
(* operators; positions, speeds and keys are values to compare.            *)
(***************************************************************************)
EXTENDS Naturals, Sequences, SequencesExt

CONSTANTS
  Keyboard, Mouse,          \* the names Qt knows of keys and of mouse buttons
  LeftButton,               \* AimPanShoot's default
  DefaultSwitch, DefaultLock,
  FireSpot                  \* where a new fire icon is

None == "unbound"

ASSUME KeysAssumption ==
  /\ Keyboard \cap Mouse = {}
  /\ None \notin Keyboard \cup Mouse
  /\ LeftButton \in Mouse
  /\ {DefaultSwitch, DefaultLock} \subseteq Keyboard
  /\ FireSpot # None

KeyNames == Keyboard \cup Mouse

\* stringToKey(): an unbound slot is no key of either kind.
Valid(k) == k \in KeyNames

\* A control: its action, its key slots, its anchor, its second point (a
\* swipe's end, the fire icon) and a look control's speed.  The slots of a look
\* control are the shoot button, the precision-aim and the suspend key.
Node(act, keys, at, to, speed) ==
  [act |-> act, keys |-> keys, at |-> at, to |-> to, speed |-> speed]

IsLook(n) == n.act \in {"freeLook", "aimPanShoot"}
HasLook(nodes) == \E i \in DOMAIN nodes : IsLook(nodes[i])
KeysOf(nodes) == [i \in DOMAIN nodes |-> nodes[i].keys]

\* A control as the palette and its dialog make it: a tap has one slot, bound or
\* not, and no second point; a look control has three, and a shoot button, which
\* begins as the default, only with a fire icon.
ControlOK(n) ==
  /\ n = Node(n.act, n.keys, n.at, n.to, n.speed)
  /\ n.at # None /\ n.to # None
  /\ n.act = "tapSpot" => n.keys = <<n.keys[1]>> /\ n.to = FireSpot /\ n.speed = 0
  /\ IsLook(n) => n.keys = <<n.keys[1], n.keys[2], n.keys[3]>>
  /\ n.act = "aimPanShoot" => n.keys[1] # None
  /\ n.act = "freeLook" => n.keys[1] = None /\ n.to = FireSpot

\* No mouse button twice in lists of keys
ButtonsOnce(lists) ==
  \A i, j \in DOMAIN lists : \A s \in DOMAIN lists[i], t \in DOMAIN lists[j] :
    lists[i][s] \in Mouse /\ lists[i][s] = lists[j][t] => i = j /\ s = t

LookIndex(nodes) == CHOOSE i \in DOMAIN nodes :
                      /\ IsLook(nodes[i])
                      /\ \A j \in 1..(i - 1) : ~IsLook(nodes[j])

\* Those elements of a sequence that are in S, in their order: SelectSeq, whose
\* definition no prover unfolds, for a set and as a recursive function.
Those(s, S) ==
  LET kept[i \in 0..Len(s)] ==
        IF i = 0 THEN <<>>
        ELSE IF s[i] \in S THEN Append(kept[i - 1], s[i]) ELSE kept[i - 1]
  IN kept[Len(s)]

-----------------------------------------------------------------------------
(* Writing                                                                 *)

NoLook == [at |-> None, speed |-> 0, eyes |-> None, suspend |-> None]

ShootKey(n) == IF n.keys[1] = None THEN LeftButton ELSE n.keys[1]

\* mouseMoveMap, of the first look control
LookToJson(nodes) ==
  IF ~HasLook(nodes) THEN NoLook
  ELSE LET n == nodes[LookIndex(nodes)]
       IN [at |-> n.at, speed |-> n.speed, eyes |-> n.keys[2], suspend |-> n.keys[3]]

\* The root's shootButton, which gates a mouse button behind shoot-mode.
ShootButton(nodes) ==
  IF HasLook(nodes)
  THEN LET n == nodes[LookIndex(nodes)]
       IN IF n.act = "aimPanShoot" /\ ShootKey(n) \in Mouse THEN ShootKey(n) ELSE None
  ELSE None

\* The entry of keyMapNodes a control becomes; a KMT_CLICK is a tap spot.
NodeToJson(n) ==
  IF n.act = "aimPanShoot" THEN Node("tapSpot", <<ShootKey(n)>>, n.to, FireSpot, 0) ELSE n

\* A free look has none: it is all in mouseMoveMap.
NodesToJson(nodes) ==
  LET written == Those(nodes, {n \in Range(nodes) : n.act # "freeLook"})
  IN [i \in DOMAIN written |-> NodeToJson(written[i])]

ToJson(modes, nodes) ==
  [switch |-> IF modes.switch = None THEN DefaultSwitch ELSE modes.switch,
   lock   |-> IF modes.lock = None THEN DefaultLock ELSE modes.lock,
   shoot  |-> ShootButton(nodes),
   look   |-> LookToJson(nodes),
   nodes  |-> NodesToJson(nodes)]

-----------------------------------------------------------------------------
(* Reading                                                                 *)

\* Mutant: the fire icon's click is known by its place only, as before it had
\* a place of its own.
IsShootByPlace(f, e) == e.act = "tapSpot" /\ f.look # NoLook /\ e.at = f.look.at

\* The click that is the look control's shoot: the shoot button's, or, as in
\* old files, one right on the look anchor.
IsShoot(f, e) ==
  /\ e.act = "tapSpot" /\ f.look # NoLook
  /\ \/ e.at = f.look.at
     \/ f.shoot # None /\ e.keys[1] = f.shoot

Shoots(f) == {e \in Range(f.nodes) : IsShoot(f, e)}

\* The look control comes last, whatever its place was.
LookFromJson(f) ==
  LET shoots == Those(f.nodes, Shoots(f))
      others == <<f.look.eyes, f.look.suspend>>
  IN IF f.look = NoLook THEN <<>>
     ELSE IF shoots = <<>>
     THEN <<Node("freeLook", <<None>> \o others, f.look.at, FireSpot, f.look.speed)>>
     ELSE <<Node("aimPanShoot", Last(shoots).keys \o others, f.look.at,
                 Last(shoots).at, f.look.speed)>>

FromJson(f) ==
  [modes |-> [switch |-> f.switch, lock |-> f.lock],
   nodes |-> Those(f.nodes, Range(f.nodes) \ Shoots(f)) \o LookFromJson(f)]

\* A tap that nobody gave a key, right on the look anchor: the next reading takes
\* it for the fire icon, and the next writing gives that one the default button,
\* which another control may have.
KeylessFire(f) ==
  \E i \in DOMAIN f.nodes :
    /\ f.nodes[i].act = "tapSpot" /\ f.nodes[i].keys[1] = None
    /\ f.look # NoLook /\ f.nodes[i].at = f.look.at

IsSeq(s) == s \in Seq(Range(s))

\* A file as the program writes it: no look control among its entries, the shoot
\* button that of a click, no mouse button twice.
FileOK(f) ==
  /\ f = [switch |-> f.switch, lock |-> f.lock, shoot |-> f.shoot, look |-> f.look, nodes |-> f.nodes]
  /\ f.switch # None /\ f.lock # None
  /\ IsSeq(f.nodes)
  /\ \A i \in DOMAIN f.nodes : ControlOK(f.nodes[i]) /\ ~IsLook(f.nodes[i])
  /\ \/ f.look = NoLook
     \/ /\ f.look = [at |-> f.look.at, speed |-> f.look.speed, eyes |-> f.look.eyes,
                     suspend |-> f.look.suspend]
        /\ f.look.at # None
  /\ f.shoot # None =>
       /\ f.shoot \in Mouse /\ f.look # NoLook
       /\ \E i \in DOMAIN f.nodes : f.nodes[i].act = "tapSpot" /\ f.nodes[i].keys[1] = f.shoot
  /\ ButtonsOnce(Append(KeysOf(f.nodes), <<f.look.eyes, f.look.suspend>>))
  /\ ~KeylessFire(f)

-----------------------------------------------------------------------------
(* The engine                                                              *)

\* An entry with a key that is none is left out; a wheel needs all four.
Usable(e) == \A i \in DOMAIN e.keys : Valid(e.keys[i])

\* A precision-aim key that is none, and with it a bad switch key, makes the
\* engine refuse the whole file.
LookRefused(f) == f.look # NoLook /\ f.look.eyes # None /\ ~Valid(f.look.eyes)

LoadKeyMap(f) ==
  IF ~Valid(f.switch) \/ LookRefused(f)
  THEN [nodes |-> <<>>, look |-> NoLook]
  ELSE [nodes |-> Those(f.nodes, {e \in Range(f.nodes) : Usable(e)}), look |-> f.look]

\* makeReverseMap() and value(): of several entries with one key, the last.
NoEntry == Node("none", <<>>, None, None, 0)

GetKeyMapNode(nodes, k) ==
  LET uses == Those(nodes, {e \in Range(nodes) : k \in Range(e.keys)})
  IN IF uses = <<>> THEN NoEntry ELSE Last(uses)

\* InputConvertGame::loadKeyMap(): the lock and suspend keys must be on the
\* keyboard, the shoot button on the mouse.
ModeKeys(f) ==
  [lock    |-> IF f.lock \in Keyboard THEN f.lock ELSE DefaultLock,
   shoot   |-> IF f.shoot \in Mouse THEN f.shoot ELSE None,
   suspend |-> IF f.look.suspend \in Keyboard THEN f.look.suspend ELSE None]

\* All that a file means to the engine.
Meaning(f) ==
  LET km == LoadKeyMap(f)
  IN [switch |-> IF Valid(f.switch) THEN f.switch ELSE DefaultSwitch,
      modes  |-> ModeKeys(f),
      look   |-> [at |-> km.look.at, speed |-> km.look.speed, eyes |-> km.look.eyes],
      drives |-> [k \in KeyNames |-> GetKeyMapNode(km.nodes, k)]]
=============================================================================
