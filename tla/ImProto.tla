------------------------------ MODULE ImProto ------------------------------
(***************************************************************************)
(* The templates of i18nIMProto.c that hold arrays, lists or padding and    *)
(* that the handlers of XimFrames use.  The others are rows of numbers, as  *)
(* far as handlers go through them (of connect_fr they read the numbers in  *)
(* front only); or belong to messages that the server as it is configured  *)
(* neither handles nor sends (authentication, trigger keys, errors, a      *)
(* keysym that is committed, string conversion, drawing of a status); or   *)
(* describe the value of one attribute: what fontset_fr makes of a font set *)
(* is modelled in IcAttributes.                                            *)
(***************************************************************************)
EXTENDS FrameMgr

BIT8    == _FRAME("BIT8")
BIT16   == _FRAME("BIT16")
BIT32   == _FRAME("BIT32")
BARRAY  == _FRAME("BARRAY")
ITER    == _FRAME("ITER")
POINTER == _FRAME("POINTER")
EOL     == _FRAME("EOL")

ximattr_fr      == <<BIT16, BIT16, BIT16, BARRAY, _PAD4(2), EOL>>
xicattr_fr      == <<BIT16, BIT16, BIT16, BARRAY, _PAD4(2), EOL>>
ximattribute_fr == <<BIT16, BIT16, BARRAY, _PAD4(1), EOL>>
xicattribute_fr == <<BIT16, BIT16, BARRAY, _PAD4(1), EOL>>
encodinginfo_fr == <<BIT16, BARRAY, _PAD4(2), EOL>>
str_fr          == <<BIT8, BARRAY, EOL>>
ext_fr          == <<BIT16, BIT16, BIT16, BARRAY, _PAD4(2), EOL>>
inputstyle_fr   == <<BIT32, EOL>>

input_styles_fr == <<BIT16, _PAD4(1), ITER, POINTER, _XIMPTR(inputstyle_fr), EOL>>

open_fr == <<POINTER, _XIMPTR(str_fr), _PAD4(1), EOL>>

open_reply_fr ==
  <<BIT16,
    _BYTE_COUNTER("BIT16", 1), ITER, POINTER, _XIMPTR(ximattr_fr),
    _BYTE_COUNTER("BIT16", 2), _PAD4(1), ITER, POINTER, _XIMPTR(xicattr_fr), EOL>>

encoding_negotiation_fr ==
  <<BIT16,
    _BYTE_COUNTER("BIT16", 1), ITER, POINTER, _XIMPTR(str_fr), _PAD4(1),
    _BYTE_COUNTER("BIT16", 2), _PAD4(1), ITER, POINTER, _XIMPTR(encodinginfo_fr), EOL>>

encoding_negotiation_reply_fr == <<BIT16, BIT16, BIT16, _PAD4(1), EOL>>

query_extension_fr ==
  <<BIT16, _BYTE_COUNTER("BIT16", 1), ITER, POINTER, _XIMPTR(str_fr), _PAD4(1), EOL>>

query_extension_reply_fr ==
  <<BIT16, _BYTE_COUNTER("BIT16", 1), ITER, POINTER, _XIMPTR(ext_fr), EOL>>

get_im_values_fr ==
  <<BIT16, _BYTE_COUNTER("BIT16", 1), ITER, BIT16, _PAD4(1), EOL>>

get_im_values_reply_fr ==
  <<BIT16, _BYTE_COUNTER("BIT16", 1), ITER, POINTER, _XIMPTR(ximattribute_fr), EOL>>

create_ic_fr ==
  <<BIT16, _BYTE_COUNTER("BIT16", 1), ITER, POINTER, _XIMPTR(xicattribute_fr), EOL>>

set_ic_values_fr ==
  <<BIT16, BIT16, _BYTE_COUNTER("BIT16", 2), _PAD4(1),
    ITER, POINTER, _XIMPTR(xicattribute_fr), EOL>>

get_ic_values_fr ==
  <<BIT16, BIT16, _BYTE_COUNTER("BIT16", 1), ITER, BIT16, _PAD4(2), EOL>>

get_ic_values_reply_fr ==
  <<BIT16, BIT16, _BYTE_COUNTER("BIT16", 2), _PAD4(1),
    ITER, POINTER, _XIMPTR(xicattribute_fr), EOL>>

commit_chars_fr == <<BIT16, BIT16, BIT16, BIT16, BARRAY, _PAD4(1), EOL>>

reset_ic_reply_fr == <<BIT16, BIT16, BIT16, BARRAY, _PAD4(2), EOL>>

(* Variant: pads the text alone, without the length in front of it.        *)
preedit_draw_frPaddedText ==
  <<BIT16, BIT16, BIT32, BIT32, BIT32, BIT32, BIT16, BARRAY, _PAD4(1),
    _BYTE_COUNTER("BIT16", 2), _PAD4(1), ITER, BIT32, EOL>>

preedit_draw_fr ==
  <<BIT16, BIT16, BIT32, BIT32, BIT32, BIT32, BIT16, BARRAY, _PAD4(2),
    _BYTE_COUNTER("BIT16", 2), _PAD4(1), ITER, BIT32, EOL>>
=============================================================================
