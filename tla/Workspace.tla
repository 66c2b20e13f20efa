----------------------------- MODULE Workspace -----------------------------
(***************************************************************************)
(* The workspace deck: presets and chips that choose which chart panels    *)
(* the studio layout shows, and the focus on one panel.  The choice is     *)
(* kept in localStorage, which the other tabs write too; the page is       *)
(* rendered again when a file is loaded or a live run is refreshed.        *)
(*                                                                         *)
(* A panel is marked hidden when its chip is off.  The studio shows no     *)
(* panel that is marked, and none of memory, gc and ratio, marked or not:  *)
(* its overlay draws their metrics.  The story, the other layout that has  *)
(* a deck, shows neither panels nor chips.                                 *)
(***************************************************************************)
EXTENDS Naturals, FiniteSets

CONSTANTS
  Panels,    \* chart panels a page may have
  PresetOf,  \* the panels of each preset but custom, which has none of its own
  Pages      \* the sets of panels that files and runs come with

ASSUME WorkspaceAssumption ==
  /\ "overview" \in DOMAIN PresetOf /\ "custom" \notin DOMAIN PresetOf
  /\ \A id \in DOMAIN PresetOf : PresetOf[id] \subseteq Panels
  /\ \A available \in Pages : available \subseteq Panels /\ available # {}

VARIABLES
  kept,   \* layout, preset and panel map in localStorage
  deck,   \* page of a live run or of files, its layout, panels, those marked
          \* hidden, and the pressed buttons
  focus,  \* panel in focus, whether the page is in focus mode, the focused panels
  past    \* history: another tab wrote the choice after the deck was built;
          \* the page was rendered in focus mode

workspaceVars == <<kept, deck, focus, past>>

PresetIds == DOMAIN PresetOf \cup {"custom"}
Layouts == {"classic", "studio", "story"}
Maps == UNION {[available -> BOOLEAN] : available \in SUBSET Panels}
Covered == {"memory", "gc", "ratio"}
NoMap == [p \in {} |-> TRUE]
NoFocus == [panels |-> {}, body |-> FALSE, active |-> {}]

WorkspaceTypeOK ==
  /\ kept \in [layout: Layouts, preset: PresetIds, map: Maps]
  /\ deck \in [live: BOOLEAN, layout: Layouts, available: SUBSET Panels, hidden: SUBSET Panels,
               preset: PresetIds, chips: SUBSET Panels]
  /\ deck.hidden \cup deck.chips \subseteq deck.available
  /\ focus \in [panels: SUBSET Panels, body: BOOLEAN, active: SUBSET Panels]
  /\ past \in [foreign: BOOLEAN, rendered: BOOLEAN]

\* A page without panels builds no deck.
WorkspaceInit ==
  /\ kept = [layout |-> "classic", preset |-> "overview", map |-> NoMap]
  /\ deck \in [live: BOOLEAN, layout: {"classic"}, available: {{}}, hidden: {{}},
               preset: {"overview"}, chips: {{}}]
  /\ focus = NoFocus
  /\ past = [foreign |-> FALSE, rendered |-> FALSE]

----------------------------------------------------------------------------
\* Mutant: the choice of the reader is read for a preset, not for custom.
VisibilityOfPreset(available, preset, map) ==
  [p \in available |-> IF preset = "custom" THEN TRUE
                       ELSE IF p \in DOMAIN map THEN map[p] ELSE p \in PresetOf[preset]]

\* buildVisibilityMap.
Visibility(available, preset, map) ==
  [p \in available |-> IF preset # "custom" THEN p \in PresetOf[preset]
                       ELSE IF p \in DOMAIN map THEN map[p] ELSE TRUE]

\* What is chosen for the panels of a page goes over what is stored.
Merged(map, old) ==
  [p \in DOMAIN map \cup DOMAIN old |-> IF p \in DOMAIN map THEN map[p] ELSE old[p]]

HiddenBy(map) == {p \in DOMAIN map : ~map[p]}
ShownBy(map) == {p \in DOMAIN map : map[p]}

\* initWorkspaceDeck: the map that is written has only the panels of this page.
Build(layout, available) ==
  LET map == Visibility(available, kept.preset, kept.map)
  IN /\ deck' = [deck EXCEPT !.layout = layout, !.available = available,
                             !.hidden = HiddenBy(map), !.preset = kept.preset,
                             !.chips = ShownBy(map)]
     /\ kept' = [kept EXCEPT !.layout = layout, !.map = map]

\* A file is loaded, or the live run refreshed, which only gains panels.  The
\* panels are new and no longer marked, yet the page stays in focus mode unless
\* the layout is the classic one.  There the deck of a live run is not built.
Render(available) ==
  /\ deck.live => deck.available \subseteq available
  /\ IF deck.live /\ kept.layout = "classic"
     THEN /\ deck' = [deck EXCEPT !.layout = "classic", !.available = available,
                                  !.hidden = {}, !.chips = {}]
          /\ UNCHANGED kept
     ELSE Build(kept.layout, available)
  /\ focus' = IF kept.layout = "classic" THEN NoFocus ELSE [focus EXCEPT !.active = {}]
  /\ past' = [foreign |-> FALSE, rendered |-> focus'.body]

\* Mutant: the classic layout leaves the page in focus mode.
SelectLayoutInFocus(layout) ==
  IF layout # "classic" /\ deck.available # {}
  THEN Build(layout, deck.available) /\ past' = [past EXCEPT !.foreign = FALSE] /\ UNCHANGED focus
  ELSE /\ kept' = [kept EXCEPT !.layout = layout]
       /\ deck' = [deck EXCEPT !.layout = layout, !.hidden = {}]
       /\ UNCHANGED <<focus, past>>

\* setViewMode: studio and story build the deck anew, if there are panels; the
\* classic layout shows every panel and ends the focus.
SelectLayout(layout) ==
  IF layout # "classic" /\ deck.available # {}
  THEN Build(layout, deck.available) /\ past' = [past EXCEPT !.foreign = FALSE] /\ UNCHANGED focus
  ELSE /\ kept' = [kept EXCEPT !.layout = layout]
       /\ deck' = [deck EXCEPT !.layout = layout, !.hidden = {}]
       /\ focus' = NoFocus /\ past' = [past EXCEPT !.rendered = FALSE]

----------------------------------------------------------------------------
DeckShown == deck.layout # "classic" /\ deck.available # {}
ControlsShown == deck.layout = "studio" /\ deck.available # {}

\* A preset sets every chip; all but custom end the focus.
ClickPreset(preset) ==
  LET map == Visibility(deck.available, preset, kept.map)
  IN /\ ControlsShown
     /\ kept' = [kept EXCEPT !.preset = preset, !.map = map]
     /\ deck' = [deck EXCEPT !.preset = preset, !.hidden = HiddenBy(map), !.chips = ShownBy(map)]
     /\ focus' = IF preset = "custom" THEN focus ELSE NoFocus
     /\ past' = [foreign |-> FALSE, rendered |-> past.rendered /\ preset = "custom"]

\* Mutant: a chip starts from what the preset had, not from what is stored.
ClickChipOverPreset(p) ==
  LET map == [Visibility(deck.available, kept.preset, kept.map) EXCEPT ![p] = p \notin deck.chips]
  IN /\ ControlsShown /\ p \in deck.available
     /\ kept' = [kept EXCEPT !.map = Merged(map, @)]
     /\ deck' = [deck EXCEPT !.preset = "custom", !.hidden = HiddenBy(map),
                             !.chips = IF p \in @ THEN @ \ {p} ELSE @ \cup {p}]
     /\ UNCHANGED <<focus, past>>

\* A chip turns its own panel, in the stored choice; the other chips stay as they
\* are, whatever the stored choice has become.
ClickChip(p) ==
  LET map == [Visibility(deck.available, "custom", kept.map) EXCEPT ![p] = p \notin deck.chips]
  IN /\ ControlsShown /\ p \in deck.available
     /\ kept' = [kept EXCEPT !.preset = "custom", !.map = Merged(map, @)]
     /\ deck' = [deck EXCEPT !.preset = "custom", !.hidden = HiddenBy(map),
                             !.chips = IF p \in @ THEN @ \ {p} ELSE @ \cup {p}]
     /\ UNCHANGED <<focus, past>>

\* Panels one can see, and so click: the style sheet hides the others.
Seen ==
  CASE deck.layout = "classic" -> deck.available
    [] deck.layout = "studio" ->
         (deck.available \ (deck.hidden \cup Covered)) \cap (IF focus.body THEN focus.active ELSE Panels)
    [] deck.layout = "story" -> {}

\* The button of a panel: Expand, and Collapse when the focus is on it.
ClickFocus(p) ==
  /\ ControlsShown /\ p \in Seen
  /\ focus' = IF focus.panels = {p} THEN NoFocus
              ELSE [panels |-> {p}, body |-> TRUE, active |-> {p}]
  /\ past' = [past EXCEPT !.rendered = FALSE]
  /\ UNCHANGED <<kept, deck>>

\* Another tab, on a page of its own: its deck writes the same choice.
OtherDeck(available, preset) ==
  /\ kept' = [kept EXCEPT !.preset = preset, !.map = Visibility(available, preset, kept.map)]
  /\ past' = [past EXCEPT !.foreign = TRUE]
  /\ UNCHANGED <<deck, focus>>

\* A chip of its deck, which may show what has been stored or something older.
OtherChip(available, p, shown) ==
  /\ p \in available
  /\ kept' = [kept EXCEPT !.preset = "custom",
                !.map = Merged([Visibility(available, "custom", kept.map) EXCEPT ![p] = shown], @)]
  /\ past' = [past EXCEPT !.foreign = TRUE]
  /\ UNCHANGED <<deck, focus>>

OtherLayout(layout) ==
  /\ kept.layout # layout /\ kept' = [kept EXCEPT !.layout = layout]
  /\ UNCHANGED <<deck, focus, past>>

Renders == \E available \in Pages : Render(available)

WorkspaceNext ==
  \/ Renders
  \/ \E layout \in Layouts : SelectLayout(layout) \/ OtherLayout(layout)
  \/ \E preset \in PresetIds : ClickPreset(preset) \/ \E a \in Pages : OtherDeck(a, preset)
  \/ \E p \in Panels :
       \/ ClickChip(p) \/ ClickFocus(p)
       \/ \E a \in Pages, shown \in BOOLEAN : OtherChip(a, p, shown)

WorkspaceSpec == WorkspaceInit /\ [][WorkspaceNext]_workspaceVars

----------------------------------------------------------------------------
\* Where there is a deck, and as long as no other tab has chosen, the chips are the
\* stored choice and that of the pressed preset; in the studio, out of focus mode, the
\* panels one sees are those whose chips are pressed, but for memory, gc and ratio.
ChipsAgree ==
  DeckShown /\ ~past.foreign =>
    /\ deck.chips = deck.available \ deck.hidden
    /\ deck.layout = "studio" /\ ~focus.body => Seen = deck.chips \ Covered
    /\ deck.preset = kept.preset
    /\ deck.available \subseteq DOMAIN kept.map
    /\ deck.chips = {p \in deck.available : kept.map[p]}
    /\ deck.preset # "custom" => deck.chips = deck.available \cap PresetOf[deck.preset]

Chosen(map, p) == p \in DOMAIN map => map[p]

\* What the reader has chosen for a panel of the page outlives everything this tab
\* does but a click on the chip of that panel, or on a preset.
ChoiceKept ==
  [][kept.preset = "custom" /\ kept'.preset = "custom" /\ deck' # deck =>
       \A p \in deck'.available :
         Chosen(kept'.map, p) = Chosen(kept.map, p) \/ ClickChip(p)]_workspaceVars

\* In focus mode the studio shows the panel that was expanded and no other, unless its
\* chip has hidden it since, or the page was rendered again, which leaves none; and then
\* the deck is there, with the presets that end the focus.
FocusIsOnOnePanel ==
  focus.body =>
    /\ DeckShown
    /\ ~past.rendered =>
         \E p \in deck.available \ Covered :
           focus.panels = {p} /\ (deck.layout = "studio" => Seen = {p} \ deck.hidden)

\* The deck agrees with the page it controls, in focus mode and out of it.
DeckAgrees == WorkspaceTypeOK /\ ChipsAgree /\ FocusIsOnOnePanel
=============================================================================
