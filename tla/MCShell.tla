------------------------------ MODULE MCShell ------------------------------
(* Lines for module Shell: two nested directories a and a/b, a file f that *)
(* takes two pages, words in every position of the line.                  *)
EXTENDS Shell

a == 30
b == 48
f == 33
sp == 57
dot == 52
Enter == 28

MCLines == {
  <<46, 32, sp, a, Enter>>,            \* cd a
  <<46, 32, sp, b, Enter>>,            \* cd b
  <<46, 32, sp, dot, dot, Enter>>,     \* cd ..
  <<sp, 38, 31, sp, Enter>>,           \* ls between spaces
  <<46, a, 20, sp, f, Enter>>,         \* cat f
  <<46, 32, Enter>>,                   \* cd, which faults
  <<19, 18, 48, 24, 24, 20, Enter>>,   \* reboot
  <<18, 45, 18, 46, sp, f, Enter>>     \* exec f
}

MCNoise == {<<"code", 42>>, <<"code", 29>>, <<"ctrl_r">>, <<"print">>, <<"pause">>}

MCDirectories == {<<>>, <<Name(<<a>>)>>, <<Name(<<a>>), Name(<<b>>)>>}

MCFileSize == <<Name(<<f>>)>> :> 4194304
=============================================================================
