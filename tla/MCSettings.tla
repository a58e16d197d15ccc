----------------------------- MODULE MCSettings -----------------------------
EXTENDS SettingsProperties

\* The inner gap off the presets, as a file edited by hand may have it; two rules.
MCDefault == [on |-> {}, language |-> 1, inner |-> 10, outer |-> 0,
              keys |-> <<>>, rules |-> <<"a", "b">>, floats |-> <<"f">>]

MCImported == [MCDefault EXCEPT !.rules = <<"c">>, !.language = 2]
MCCaptured == <<"d">>
MCPresets  == <<0, 4, 8>>

\* The switches of the autostart; the restart; the recorder; the dropdowns of
\* one page and of two; the rules; the dialogs; the rest.
MCHands ==
    {{Control("Terminal")},
     {Control("ToggleAutostart"), Control("ToggleElevated")},
     {Control("BtnReload")},
     {Nav("Hotkeys"), Hotkey(<<"Overview", 0>>), Hotkey(<<"Prev", 0>>),
      Control("Tab"), Control("Leave")},
     {Control("ComboTheme"), Control("ComboLanguage"), Control("Tab"), Control("Leave")},
     {NavCard("Tiling", 0), Nav("System"), Control("ComboInnerGap"), Control("ComboOuterGap")},
     {Nav("Workspaces"), Control("BtnCapture"), Control("BtnRestore"),
      <<"RuleDelete", "", 1>>, <<"RuleDelete", "", 2>>, Control("Tab")},
     {Control("BtnExport"), Control("BtnImport"), Control("Thumb"), Control("Leave")},
     {NavCard("Tiling", 0), Control("ToggleTiling"), <<"FloatRuleDelete", "", 1>>,
      Control("BtnReset")}}
=============================================================================
