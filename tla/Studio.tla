------------------------------- MODULE Studio -------------------------------
(***************************************************************************)
(* The chart studio: two layers, each a metric of the run, chosen by a     *)
(* preset or one by one and kept in localStorage, which other tabs write.  *)
(* The selects and the presets are built once for the elements of a page,  *)
(* from the metrics the studio knows of at that moment.                    *)
(***************************************************************************)
EXTENDS Sequences, SequencesExt

CONSTANTS
  Catalog,    \* the metrics, in the order in which they are offered
  Overlay,    \* OVERLAY_PRESETS: the layers of each preset
  Runs,       \* files and live runs
  MetricsOf,  \* the metrics each has samples of
  NoRun

ASSUME StudioAssumption ==
  /\ NoRun \notin Runs
  /\ Catalog \in Seq(STRING) /\ Len(Catalog) > 1 /\ "" \notin ToSet(Catalog)
  /\ "memory-gc" \in DOMAIN Overlay /\ {"custom", "none"} \cap DOMAIN Overlay = {}
  /\ \A id \in DOMAIN Overlay :
       Overlay[id] \in [a: ToSet(Catalog), b: ToSet(Catalog)] /\ Overlay[id].a # Overlay[id].b
  /\ \A run \in Runs : Catalog[1] \in MetricsOf[run] /\ MetricsOf[run] \subseteq ToSet(Catalog)

VARIABLES
  saved,    \* preset and layers in localStorage
  layers,   \* metricA and metricB of the studio
  mounted,  \* metrics offered, values of the two selects, pressed preset
  shows,    \* run the studio was given last, whether its layout is shown
  stale     \* history: the elements were built before the run was given

studioVars == <<saved, layers, mounted, shows, stale>>

Metrics == ToSet(Catalog)
NoMetric == ""
NoPreset == "none"
DefaultPreset == "memory-gc"
Layers == [a: Metrics, b: Metrics \cup {NoMetric}]
Unmounted == [offered |-> {}, a |-> NoMetric, b |-> NoMetric, pressed |-> NoPreset]

StudioTypeOK ==
  /\ saved \in [preset: DOMAIN Overlay \cup {"custom", NoPreset}, layers: Layers]
  /\ layers \in Layers
  /\ mounted \in [offered: SUBSET Metrics, a: Metrics \cup {NoMetric},
                  b: Metrics \cup {NoMetric}, pressed: DOMAIN Overlay \cup {NoPreset}]
  /\ shows \in [run: Runs \cup {NoRun}, visible: BOOLEAN]
  /\ stale \in BOOLEAN

\* The layers that nobody has saved count for nothing: there is no preset either.
StudioInit ==
  /\ saved = [preset |-> NoPreset, layers |-> [a |-> Catalog[1], b |-> Catalog[2]]]
  /\ layers = saved.layers
  /\ mounted = Unmounted
  /\ shows = [run |-> NoRun, visible |-> FALSE]
  /\ stale = FALSE

----------------------------------------------------------------------------
\* getAvailableOverlayMetrics(...).find
FirstOf(run, except) ==
  LET i == SelectInSeq(Catalog, LAMBDA m : m \in MetricsOf[run] /\ m # except)
  IN IF i = 0 THEN NoMetric ELSE Catalog[i]

IfAvailable(run, m, otherwise) == IF m \in MetricsOf[run] THEN m ELSE otherwise

\* Mutant: a layer that is not available is restored.
RestoredUnchecked(run) ==
  IF saved.preset \in DOMAIN Overlay
  THEN [a |-> IfAvailable(run, Overlay[saved.preset].a, layers.a),
        b |-> IfAvailable(run, Overlay[saved.preset].b, layers.b)]
  ELSE IF saved.preset = "custom" THEN saved.layers ELSE layers

\* restoreLayers: what is saved, where the run has it; else what the studio had,
\* where the run has that; else the first metrics of the run.
Restored(run) ==
  LET wanted == IF saved.preset \in DOMAIN Overlay THEN Overlay[saved.preset]
                ELSE IF saved.preset = "custom" THEN saved.layers ELSE layers
      a == IfAvailable(run, IfAvailable(run, wanted.a, layers.a), Catalog[1])
      b == IfAvailable(run, wanted.b, layers.b)
  IN [a |-> a, b |-> IF b \in MetricsOf[run] THEN b ELSE FirstOf(run, a)]

\* The value of a select that is given a value it does not offer.
ValueOf(m, offered) == IF m \in offered THEN m ELSE NoMetric

\* buildStudioMarkup: a preset is offered if the run has both of its metrics, and
\* the default is pressed though nobody has saved it.
PressedAtMount(metrics) ==
  LET id == IF saved.preset = NoPreset THEN DefaultPreset ELSE saved.preset
  IN IF id \in DOMAIN Overlay /\ {Overlay[id].a, Overlay[id].b} \subseteq metrics
     THEN id ELSE NoPreset

Mounted(metrics, at) ==
  [offered |-> metrics, a |-> ValueOf(at.a, metrics), b |-> ValueOf(at.b, metrics),
   pressed |-> PressedAtMount(metrics)]

\* A live run is rendered: init, on the elements of the new page.
RenderRun(run, visible) ==
  /\ layers' = Restored(run)
  /\ mounted' = Mounted(MetricsOf[run], layers')
  /\ shows' = [run |-> run, visible |-> visible] /\ stale' = FALSE
  /\ UNCHANGED saved

\* A file is loaded: the layout is applied before init, and if it shows the studio
\* the elements are built then, from the file before.
LoadFile(run, visible) ==
  LET early == visible /\ shows.run # NoRun
      metrics == IF early THEN MetricsOf[shows.run] ELSE MetricsOf[run]
  IN /\ layers' = Restored(run)
     /\ mounted' = Mounted(metrics, layers')
     /\ shows' = [run |-> run, visible |-> visible] /\ stale' = early
     /\ UNCHANGED saved

ShowStudio(visible) ==
  /\ shows.visible # visible /\ shows' = [shows EXCEPT !.visible = visible]
  /\ UNCHANGED <<saved, layers, mounted, stale>>

----------------------------------------------------------------------------
Used == shows.run # NoRun /\ shows.visible

\* applyPreset, of a preset that is offered.
ApplyPreset(id) ==
  /\ Used /\ {Overlay[id].a, Overlay[id].b} \subseteq mounted.offered
  /\ IF Overlay[id].a \notin MetricsOf[shows.run] THEN UNCHANGED <<saved, layers, mounted>>
     ELSE /\ layers' = [a |-> Overlay[id].a,
                        b |-> IfAvailable(shows.run, Overlay[id].b, NoMetric)]
          /\ saved' = [preset |-> id, layers |-> layers']
          /\ mounted' = [mounted EXCEPT !.a = layers'.a, !.b = layers'.b, !.pressed = id]
  /\ UNCHANGED <<shows, stale>>

Choose(chosen) ==
  /\ layers' = chosen
  /\ saved' = [preset |-> "custom", layers |-> chosen]
  /\ mounted' = [mounted EXCEPT !.a = chosen.a, !.b = ValueOf(chosen.b, mounted.offered),
                                !.pressed = NoPreset]
  /\ UNCHANGED <<shows, stale>>

\* Mutant: layer B follows nothing.
SelectAAlone(m) ==
  /\ Used /\ m \in mounted.offered \ {mounted.a}
  /\ Choose([layers EXCEPT !.a = m])

\* Layer A; layer B gives way if it has the same metric.
SelectA(m) ==
  /\ Used /\ m \in mounted.offered \ {mounted.a}
  /\ Choose([a |-> m, b |-> IF layers.b = m THEN FirstOf(shows.run, m) ELSE layers.b])

SelectB(m) ==
  /\ Used /\ m \in (mounted.offered \cup {NoMetric}) \ {mounted.b}
  /\ Choose([layers EXCEPT !.b = m])

\* The studio of another tab, on another run.
OtherStudio(chosen, preset) ==
  /\ preset \in DOMAIN Overlay => chosen = Overlay[preset]
  /\ saved' = [preset |-> preset, layers |-> chosen]
  /\ UNCHANGED <<layers, mounted, shows, stale>>

SelectsB == \E m \in Metrics \cup {NoMetric} : SelectB(m)

StudioNext ==
  \/ \E run \in Runs, visible \in BOOLEAN : RenderRun(run, visible) \/ LoadFile(run, visible)
  \/ \E visible \in BOOLEAN : ShowStudio(visible)
  \/ \E id \in DOMAIN Overlay : ApplyPreset(id) \/ OtherStudio(Overlay[id], id)
  \/ (\E m \in Metrics : SelectA(m)) \/ SelectsB
  \/ \E run \in Runs : \E a, b \in MetricsOf[run] : OtherStudio([a |-> a, b |-> b], "custom")

StudioSpec == StudioInit /\ [][StudioNext]_studioVars

----------------------------------------------------------------------------
\* Unless a file was loaded while the studio was shown over another, the studio
\* offers the metrics of its run, overlays only those, and its selects show the
\* layers it overlays.
StudioIsOfItsRun ==
  shows.run # NoRun /\ ~stale =>
    /\ mounted.offered = MetricsOf[shows.run]
    /\ layers.a \in MetricsOf[shows.run]
    /\ layers.b \in MetricsOf[shows.run] \cup {NoMetric}
    /\ mounted.a = layers.a /\ mounted.b = layers.b

\* A pressed preset is the one that is overlaid, but for the default, which is
\* pressed also when nothing was saved and the layers are those of another run.
PressedIsOverlaid ==
  mounted.pressed \notin {NoPreset, DefaultPreset} /\ ~stale =>
    layers = [a |-> Overlay[mounted.pressed].a, b |-> Overlay[mounted.pressed].b]

\* The two layers become the same only if the reader chooses so for layer B, or they
\* were saved as the same, or the run lacks one that was saved; none has a layer saved
\* as empty, as layer B may be.
LayersDiffer ==
  [][layers.a # layers.b /\ layers'.a = layers'.b =>
       \/ SelectsB
       \/ \E m \in {saved.layers.a, saved.layers.b} : m \notin MetricsOf[shows'.run]
       \/ saved.layers.a = saved.layers.b]_studioVars

\* The studio agrees with the run it is shown for, in its controls and its chart.
StudioAgrees == StudioTypeOK /\ StudioIsOfItsRun /\ PressedIsOverlaid
=============================================================================
