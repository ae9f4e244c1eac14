\* Write samples below, between and above the default write threshold 76,
\* read samples below and above the default read threshold 5000, so that
\* every verdict branch, the raise and the reset to defaults happen.
CONSTANTS
  WriteQps = {0, 60, 200}
  ReadQps = {0, 3000, 20000}
  InitWriteThreshold = 76
  InitReadThreshold = 5000
SPECIFICATION Spec
INVARIANT ThresholdsWithinObserved
