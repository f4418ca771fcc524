CONSTANTS
  ring_tone_sound = ring_tone_sound
  Events = {ring_tone_sound}
  Files = {sound_file}
  Device <- MCDevice
  Interval <- MCTimes
  Repetitions <- MCTimes
  MaxEvents = 2
  Never = 4
  Unmapped = Unmapped
  Devices = {headset}
  Fallback = silent
  Unknown = unknown
  Microphones = {headset, microphone}
  Silent = silent
  Streams = {call1}
  None = None
SPECIFICATION AudioSpec
INVARIANTS
  SleepsInTime
  PrimaryMatchesItsUse
  NoSoundOverAStream
  MicrophoneMatchesItsUse
  DesiredBetweenStreams
PROPERTIES
  SinglesAreTaken
  WhatIsAskedReturns
CHECK_DEADLOCK FALSE
