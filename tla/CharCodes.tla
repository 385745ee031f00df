------------------------------ MODULE CharCodes ------------------------------
(***************************************************************************)
(* The character codes the console code tells apart, and the cells of the  *)
(* text-mode display.  A code is the C `int` passed down from cputchar():  *)
(* bits 0-7 are the character, bits 8-15 the display attribute, and a      *)
(* sign-extended `char` is a negative code.                                *)
(***************************************************************************)
EXTENDS Integers

BS  == 8      \* '\b'
TAB == 9      \* '\t'
NL  == 10     \* '\n'
CR  == 13     \* '\r'
SP  == 32     \* ' '
DEL == 127    \* '\x7f'

Byte == 0 .. 255
UInt16 == 65536               \* 2^16
Cell == 0 .. UInt16 - 1       \* uint16_t

BlackOnWhite == 1792          \* 0x0700, the attribute of plain text

Char(c) == c % 256            \* c & 0xff
NoAttribute(c) == c \div 256 = 0

\* The code with the default attribute when it carries none.
WithAttribute(c) == IF NoAttribute(c) THEN c + BlackOnWhite ELSE c

\* What a store to a uint16_t cell keeps of a code.
CellOf(c) == c % UInt16

\* A blank with the attribute of code c, and the blank of an empty row.
BlankLike(c) == CellOf((c - Char(c)) + SP)
BlankCell == BlackOnWhite + SP

\* Codes that put a mark on the screen, as opposed to moving the cursor.
Printing(c) == Char(c) \notin {BS, TAB, NL, CR}
=============================================================================
