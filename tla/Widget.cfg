\* Two adults and a minor, three parses, two secrets: a run can be overtaken by a parse.
SPECIFICATION WidgetSpec
CONSTANTS
  Files = {f1, f2, minor}
  AdultFiles = {f1, f2}
  Wallets = {w1}
  MaxSelects = 3
  MaxSecrets = 2
  None = None
INVARIANTS
  NeverBlank
  WhatWasConfirmed
  ResultIsRegistered
  OneRunPerSecret
